---------------------------- MODULE Spec2Model ----------------------------
(***************************************************************************)
(* Model of the ElectroOxidizer firmware control core: the polarity        *)
(* scheduler, the ADC signal conditioner, the WebSocket command handler,   *)
(* the multi-network credential store, the reconnect back-off of loop()    *)
(* and the button multi-reset detector.                                    *)
(*                                                                         *)
(* Conventions.                                                            *)
(*  - A uint32_t microsecond value is a pair <<hi, lo>> of 16-bit halves   *)
(*    (2^32 does not fit a 32-bit signed integer, so the full width is     *)
(*    kept in two halves and all arithmetic on it is modulo 2^32).         *)
(*  - Currents are fixed-point integers in units of 10^-5 A; the float     *)
(*    calibration constants are rounded to that grid.                      *)
(*  - Strings the firmware parses are sequences of one-character strings.  *)
(***************************************************************************)
EXTENDS Integers, Sequences, FiniteSets, TLC

VARIABLES
    \* ---- polarity scheduler (main.cpp) ----
    microsClock,        \* value micros() returns now, uint32 as <<hi, lo>>
    reversestartTime,   \* uint32 as <<hi, lo>>
    outputDirection,    \* FALSE = reverse, TRUE = forward
    directionPin,       \* level written to outputDirectionPin
    ForwardTimeInt,     \* uint16_t, ms
    ReverseTimeInt,     \* uint16_t, ms
    \* ---- signal conditioner (main.cpp) ----
    calibration,            \* [slope, intercept]: ADC_SLOPE, ADC_INTERCEPT of the build
    latestRaw,
    latestCurrent,
    positive_adc_sum,
    positive_adc_count,
    negative_adc_sum,
    negative_adc_count,
    peakPositiveCurrent,
    peakNegativeCurrent,
    averagePositiveCurrent,
    averageNegativeCurrent,
    peakPositiveVoltage,
    peakNegativeVoltage,
    averagePositiveVoltage,
    averageNegativeVoltage,
    \* ---- control parameters and run state (main.cpp) ----
    isRunning,
    FValue1,            \* String: target voltage
    FValue2,            \* String: forward dwell, ms
    RValue2,            \* String: reverse dwell, ms
    settingsFile,       \* the documents in /settings.json: none or one
    \* ---- main loop and ADC driver (main.cpp) ----
    hasResetPeakCurrent,
    peakResetStartTime, \* millis() at the end of setup()
    adcPool,            \* conversion results the driver holds, oldest first
    loopPos,            \* where the loop task stands within an iteration
    enablePin,          \* level driven on outputEnablePin (H-bridge enable)
    adc_buffer,         \* the working buffer of the ADC reads is allocated
    lastAccepted,       \* target voltage and dwell times of the last accepted commands
    lastNotifyTime,     \* millis() of the last periodic snapshot
    \* ---- credential table (multi_network.cpp) ----
    millisClock,        \* value millis() returns now
    savedNetworks,      \* slot 0..4 -> WiFiCredential
    networksFile,       \* the documents in /networks.json: none or one
    \* ---- connection state (main.cpp loop) ----
    wifiConnected,      \* WiFi.status() == WL_CONNECTED
    portalActive,       \* wifiManager.getConfigPortalActive()
    asyncServerStarted,
    lastReconnectAttempt,
    currentReconnectInterval,
    \* ---- test button (button_handler.cpp) ----
    buttonPin,          \* level digitalRead(testButton) returns now
    buttonPressTimestamps,
    buttonPressIndex,
    lastButtonState,
    lastDebounceTime,
    restarted,          \* triggerWiFiReset() has run and restarted the device
    \* ---- device identity (main.cpp) ----
    deviceName,
    hostname,
    deviceNameFile,     \* the documents in /devicename.json: none or one
    \* ---- observation of the run (not program state) ----
    fedSamples,         \* samples handed to process_adc_data so far
    frames,             \* WebSocket frames handled so far
    netOps,             \* credential-table operations so far
    failedCycles,       \* failed reconnect cycles since the last connection
    cycles,             \* reconnect cycles so far
    pressLog,           \* start times of the presses held past the debounce time
    btnLoops,           \* calls of checkButtonMultiReset so far
    acceptedSamples,    \* sums and counts of the samples that count as accepted
    pre,                \* what the last operation found when it was called
    elapsedMs,          \* real ms elapsed since reversestartTime was last set
    ticks,              \* number of clock advances so far
    wrapped,            \* micros() has wrapped past 2^32 during the run
    flips,              \* number of direction changes so far
    lastOp              \* the operation the last step performed

dirVars == <<microsClock, reversestartTime, outputDirection, directionPin,
             ForwardTimeInt, ReverseTimeInt>>
accVars == <<positive_adc_sum, positive_adc_count,
             negative_adc_sum, negative_adc_count>>
curVars == <<peakPositiveCurrent, peakNegativeCurrent,
             averagePositiveCurrent, averageNegativeCurrent>>
voltVars == <<peakPositiveVoltage, peakNegativeVoltage,
              averagePositiveVoltage, averageNegativeVoltage>>
adcVars == <<calibration, latestRaw, latestCurrent, accVars, curVars, voltVars>>
wsVars == <<isRunning, FValue1, FValue2, RValue2, settingsFile>>
dirObs == <<elapsedMs, ticks, wrapped, flips>>
adcObs == <<fedSamples, acceptedSamples>>
wsObs == <<frames>>
netVars == <<savedNetworks, networksFile>>
loopVars == <<wifiConnected, portalActive, asyncServerStarted,
              lastReconnectAttempt, currentReconnectInterval>>
btnVars == <<buttonPin, buttonPressTimestamps, buttonPressIndex,
             lastButtonState, lastDebounceTime, restarted>>
connObs == <<netOps, failedCycles, cycles, pressLog, btnLoops>>
idVars == <<deviceName, hostname, deviceNameFile>>
bootVars == <<enablePin, adc_buffer, lastAccepted, lastNotifyTime>>
runVars == <<hasResetPeakCurrent, peakResetStartTime, adcPool, loopPos,
             bootVars>>
\* the control side and the connectivity side of the firmware
ctlVars == <<dirVars, adcVars, wsVars, runVars, dirObs, adcObs, wsObs>>
connVars == <<millisClock, netVars, loopVars, btnVars, idVars, connObs>>
vars == <<ctlVars, connVars, pre, lastOp>>

-----------------------------------------------------------------------------
(* uint32_t arithmetic on <<hi, lo>> pairs *)

Half == 65536

\* a (uint32) - b (uint32), modulo 2^32
U32Sub(a, b) ==
    LET lo == a[2] - b[2]
        borrow == IF lo < 0 THEN 1 ELSE 0
    IN  <<(a[1] - b[1] - borrow) % Half, lo % Half>>

\* a (uint32) + d, modulo 2^32, for 0 <= d < 2^31
U32Add(a, d) ==
    LET lo == a[2] + (d % Half)
        carry == lo \div Half
    IN  <<(a[1] + (d \div Half) + carry) % Half, lo % Half>>

\* a (uint32) >= n, for 0 <= n < 2^31 (n converted to unsigned, as C does)
U32Geq(a, n) ==
    IF a[1] >= Half \div 2 THEN TRUE ELSE a[1] * Half + a[2] >= n

-----------------------------------------------------------------------------
(* Polarity scheduler *)

HIGH == 1
LOW == 0

\* ForwardTimeInt * 1000: uint16_t promoted to int, at most 65535000
DwellMicros_Unscaled(ms) == ms
DwellMicros(ms) == ms * 1000

\* the dwell time that handleDirectionSwitching compares against
ActiveDwell == IF outputDirection THEN ForwardTimeInt ELSE ReverseTimeInt

\* currentTime - reversestartTime >= dwell * 1000
DwellExpired(currentTime) ==
    U32Geq(U32Sub(currentTime, reversestartTime), DwellMicros(ActiveDwell))

\* void handleDirectionSwitching()
HandleDirectionSwitchingStep_NoRestart ==
    LET currentTime == microsClock IN
    IF DwellExpired(currentTime)
    THEN /\ reversestartTime' = reversestartTime
         /\ outputDirection' = ~outputDirection
         /\ directionPin' = IF outputDirection THEN LOW ELSE HIGH
         /\ elapsedMs' = 0
         /\ flips' = flips + 1
    ELSE /\ UNCHANGED <<reversestartTime, outputDirection, directionPin>>
         /\ UNCHANGED <<elapsedMs, flips>>
HandleDirectionSwitchingStep_StalePin ==
    LET currentTime == microsClock IN
    IF DwellExpired(currentTime)
    THEN /\ reversestartTime' = currentTime
         /\ outputDirection' = ~outputDirection
         /\ directionPin' = IF outputDirection THEN HIGH ELSE LOW
         /\ elapsedMs' = 0
         /\ flips' = flips + 1
    ELSE /\ UNCHANGED <<reversestartTime, outputDirection, directionPin>>
         /\ UNCHANGED <<elapsedMs, flips>>
HandleDirectionSwitchingStep ==
    LET currentTime == microsClock IN
    IF DwellExpired(currentTime)
    THEN /\ reversestartTime' = currentTime
         /\ outputDirection' = ~outputDirection
         /\ directionPin' = IF outputDirection THEN LOW ELSE HIGH
         /\ elapsedMs' = 0
         /\ flips' = flips + 1
    ELSE /\ UNCHANGED <<reversestartTime, outputDirection, directionPin>>
         /\ UNCHANGED <<elapsedMs, flips>>

-----------------------------------------------------------------------------
(* Signal conditioner.  Currents are integers in units of 10^-5 A. *)

MAX_SAMPLES == 100

\* ADC_SLOPE = 0.0192397497221598f and ADC_INTERCEPT = -39.3900104981669f
\* on the 10^-5 grid
CodeCalibration == [slope |-> 1924, intercept |-> -3939001]

\* adc_continuous_read is given sizeof(adc_buffer) bytes, the size of a
\* pointer (4), and one conversion result is 4 bytes: one sample per call
SamplesPerRead == 1

Abs(x) == IF x < 0 THEN -x ELSE x

\* (adc_raw * ADC_SLOPE) + ADC_INTERCEPT
ComputeCurrent(raw) == raw * calibration.slope + calibration.intercept

\* ((sum / count) * ADC_SLOPE) + ADC_INTERCEPT
AverageOfNoIntercept(sum, count) == (sum * calibration.slope) \div count
AverageOf(sum, count) ==
    (sum * calibration.slope) \div count + calibration.intercept

\* fabs(negative) >= 1.1 * fabs(positive)
Saturated(negative, positive) == 10 * Abs(negative) >= 11 * Abs(positive)

\* the body of the sample loop of process_adc_data for one conversion result;
\* acc is [latestRaw, latestCurrent, psum, pcount, nsum, ncount]
IngestSampleAnyDirection(acc, sample, currentDirection) ==
    IF ~sample.match THEN acc
    ELSE LET cur == ComputeCurrent(sample.data)
             a == [acc EXCEPT !.latestRaw = sample.data, !.latestCurrent = cur]
         IN  IF cur > 0
             THEN [a EXCEPT !.psum = @ + sample.data, !.pcount = @ + 1]
             ELSE IF cur < 0
             THEN [a EXCEPT !.nsum = @ + sample.data, !.ncount = @ + 1]
             ELSE a
IngestSample(acc, sample, currentDirection) ==
    IF ~sample.match THEN acc
    ELSE LET cur == ComputeCurrent(sample.data)
             a == [acc EXCEPT !.latestRaw = sample.data, !.latestCurrent = cur]
         IN  IF currentDirection /\ cur > 0
             THEN [a EXCEPT !.psum = @ + sample.data, !.pcount = @ + 1]
             ELSE IF ~currentDirection /\ cur < 0
             THEN [a EXCEPT !.nsum = @ + sample.data, !.ncount = @ + 1]
             ELSE a

RECURSIVE IngestBatch(_, _, _)
IngestBatch(acc, batch, currentDirection) ==
    IF batch = <<>> THEN acc
    ELSE IngestBatch(IngestSample(acc, Head(batch), currentDirection),
                     Tail(batch), currentDirection)

\* void process_adc_data(), reading `batch` from the ADC driver (the empty
\* batch is a read that returned no data or an error)
ProcessAdcDataStep(batch) ==
    LET currentDirection == outputDirection
        acc0 == [latestRaw |-> latestRaw, latestCurrent |-> latestCurrent,
                 psum |-> positive_adc_sum, pcount |-> positive_adc_count,
                 nsum |-> negative_adc_sum, ncount |-> negative_adc_count]
        acc == IngestBatch(acc0, batch, currentDirection)
    IN  /\ latestRaw' = acc.latestRaw
        /\ latestCurrent' = acc.latestCurrent
        /\ positive_adc_sum' = acc.psum
        /\ positive_adc_count' = acc.pcount
        /\ negative_adc_sum' = acc.nsum
        /\ negative_adc_count' = acc.ncount

\* the value handleMeasurements stores for a negative reading `fresh` whose
\* positive counterpart is `positive`
ClampNegative_Never(fresh, positive) == fresh

ClampNegative(fresh, positive) ==
    IF Saturated(fresh, positive) THEN -positive ELSE fresh

HandleMeasurementsStep_LateDrain ==
    LET posFull == positive_adc_count > MAX_SAMPLES
        negFull == negative_adc_count > MAX_SAMPLES
        avgPos == IF posFull
                  THEN AverageOf(positive_adc_sum, positive_adc_count)
                  ELSE averagePositiveCurrent
        avgNeg == IF negFull
                  THEN ClampNegative(
                         AverageOf(negative_adc_sum, negative_adc_count), avgPos)
                  ELSE averageNegativeCurrent
    IN  /\ averagePositiveCurrent' = avgPos
        /\ averageNegativeCurrent' = avgNeg
        /\ positive_adc_sum' = IF posFull THEN 0 ELSE positive_adc_sum
        /\ positive_adc_count' = IF posFull THEN 0 ELSE positive_adc_count
        /\ negative_adc_sum' = IF negFull THEN 0 ELSE negative_adc_sum
        /\ negative_adc_count' = IF negFull THEN 0 ELSE negative_adc_count
        /\ peakPositiveCurrent' =
              IF outputDirection /\ latestCurrent > peakPositiveCurrent
              THEN latestCurrent ELSE peakPositiveCurrent
        /\ peakNegativeCurrent' =
              IF ~outputDirection /\ latestCurrent < peakNegativeCurrent
              THEN ClampNegative(latestCurrent, peakPositiveCurrent)
              ELSE peakNegativeCurrent

\* void handleMeasurements()
HandleMeasurementsStep ==
    LET posFull == positive_adc_count >= MAX_SAMPLES
        negFull == negative_adc_count >= MAX_SAMPLES
        avgPos == IF posFull
                  THEN AverageOf(positive_adc_sum, positive_adc_count)
                  ELSE averagePositiveCurrent
        avgNeg == IF negFull
                  THEN ClampNegative(
                         AverageOf(negative_adc_sum, negative_adc_count), avgPos)
                  ELSE averageNegativeCurrent
    IN  /\ averagePositiveCurrent' = avgPos
        /\ averageNegativeCurrent' = avgNeg
        /\ positive_adc_sum' = IF posFull THEN 0 ELSE positive_adc_sum
        /\ positive_adc_count' = IF posFull THEN 0 ELSE positive_adc_count
        /\ negative_adc_sum' = IF negFull THEN 0 ELSE negative_adc_sum
        /\ negative_adc_count' = IF negFull THEN 0 ELSE negative_adc_count
        /\ peakPositiveCurrent' =
              IF outputDirection /\ latestCurrent > peakPositiveCurrent
              THEN latestCurrent ELSE peakPositiveCurrent
        /\ peakNegativeCurrent' =
              IF ~outputDirection /\ latestCurrent < peakNegativeCurrent
              THEN ClampNegative(latestCurrent, peakPositiveCurrent)
              ELSE peakNegativeCurrent

-----------------------------------------------------------------------------
(* Arduino String operations on sequences of one-character strings *)

Digits == <<"0", "1", "2", "3", "4", "5", "6", "7", "8", "9">>
IsDigit(c) == \E i \in 1..10 : Digits[i] = c
DigitVal(c) == (CHOOSE i \in 1..10 : Digits[i] = c) - 1

\* String::indexOf(pat): index of the first occurrence, from 0, or -1
IndexOf(str, pat) ==
    LET hits == {i \in 0..(Len(str) - Len(pat)) :
                   SubSeq(str, i + 1, i + Len(pat)) = pat}
    IN  IF hits = {} THEN -1 ELSE CHOOSE i \in hits : \A j \in hits : i <= j

\* String::substring(from): the characters from index `from` to the end
SubstringFrom(str, from) ==
    IF from >= Len(str) THEN <<>> ELSE SubSeq(str, from + 1, Len(str))

RECURSIVE SkipSpaces(_)
SkipSpaces(str) ==
    IF str # <<>> /\ Head(str) = " " THEN SkipSpaces(Tail(str)) ELSE str

\* the leading run of decimal digits of str: [val, n, rest]
RECURSIVE LeadingDigits(_, _, _)
LeadingDigits(str, val, n) ==
    IF str # <<>> /\ IsDigit(Head(str))
    THEN LeadingDigits(Tail(str), val * 10 + DigitVal(Head(str)), n + 1)
    ELSE [val |-> val, n |-> n, rest |-> str]

\* the sign atol / atof read: [neg, rest]
LeadingSign(str) ==
    IF str # <<>> /\ Head(str) = "-" THEN [neg |-> TRUE, rest |-> Tail(str)]
    ELSE IF str # <<>> /\ Head(str) = "+" THEN [neg |-> FALSE, rest |-> Tail(str)]
    ELSE [neg |-> FALSE, rest |-> str]

\* String::toInt(): atol, i.e. blanks, a sign, then digits; what follows the
\* digits is ignored and no digits give 0
ToInt(str) ==
    LET sg == LeadingSign(SkipSpaces(str))
        d == LeadingDigits(sg.rest, 0, 0)
    IN  IF sg.neg THEN -d.val ELSE d.val

\* String::toFloat(): atof, in thousandths (blanks, a sign, digits, and after
\* a point up to three digits; exponents are not read by the model)
ToFloat(str) ==
    LET sg == LeadingSign(SkipSpaces(str))
        ip == LeadingDigits(sg.rest, 0, 0)
        hasPoint == ip.rest # <<>> /\ Head(ip.rest) = "."
        fp == IF hasPoint
              THEN LeadingDigits(SubSeq(Tail(ip.rest), 1,
                                        IF Len(ip.rest) - 1 < 3
                                        THEN Len(ip.rest) - 1 ELSE 3), 0, 0)
              ELSE [val |-> 0, n |-> 0, rest |-> <<>>]
        scale == CASE fp.n = 0 -> 0 [] fp.n = 1 -> 100 [] fp.n = 2 -> 10
                   [] OTHER -> 1
        milli == ip.val * 1000 + fp.val * scale
    IN  IF sg.neg THEN -milli ELSE milli

\* String(int) for n >= 0
RECURSIVE IntToStr(_)
IntToStr(n) ==
    IF n < 10 THEN <<Digits[n + 1]>>
    ELSE IntToStr(n \div 10) \o <<Digits[(n % 10) + 1]>>

\* String(float) for a value >= 0 given in thousandths: two decimal places
FloatToStr(milli) ==
    LET centi == (milli + 5) \div 10
    IN  IntToStr(centi \div 100) \o <<".">> \o
        <<Digits[((centi \div 10) % 10) + 1], Digits[(centi % 10) + 1]>>

-----------------------------------------------------------------------------
(* Settings and the WebSocket command handler *)

NoFile == {}

\* the text frames the handler recognises
MsgToggle == <<"t", "o", "g", "g", "l", "e">>
MsgResetPeak == <<"r", "e", "s", "e", "t", "P", "e", "a", "k",
                  "C", "u", "r", "r", "e", "n", "t">>
MsgGetValues == <<"g", "e", "t", "V", "a", "l", "u", "e", "s">>

\* resetPeakValues() that leaves the accumulators as they are
ResetPeakValuesTo_KeepSums(fv1) ==
    /\ peakPositiveCurrent' = 0
    /\ peakNegativeCurrent' = 0
    /\ averagePositiveCurrent' = 0
    /\ averageNegativeCurrent' = 0
    /\ UNCHANGED accVars
    /\ peakPositiveVoltage' = ToFloat(fv1)
    /\ peakNegativeVoltage' = ToFloat(fv1)
    /\ averagePositiveVoltage' = ToFloat(fv1)
    /\ averageNegativeVoltage' = ToFloat(fv1)

\* what resetPeakValues() assigns, given the target-voltage string
ResetPeakValuesTo(fv1) ==
    /\ peakPositiveCurrent' = 0
    /\ peakNegativeCurrent' = 0
    /\ averagePositiveCurrent' = 0
    /\ averageNegativeCurrent' = 0
    /\ positive_adc_sum' = 0
    /\ positive_adc_count' = 0
    /\ negative_adc_sum' = 0
    /\ negative_adc_count' = 0
    /\ peakPositiveVoltage' = ToFloat(fv1)
    /\ peakNegativeVoltage' = ToFloat(fv1)
    /\ averagePositiveVoltage' = ToFloat(fv1)
    /\ averageNegativeVoltage' = ToFloat(fv1)

\* bool saveSettings(): the document written when the file can be opened
SaveSettingsTo(fv1, fv2, rv2, flashOk) ==
    settingsFile' = IF flashOk
                    THEN {[FValue1 |-> fv1, FValue2 |-> fv2, RValue2 |-> rv2]}
                    ELSE settingsFile

\* newVoltage >= 0.0 && newVoltage <= 24.0, in thousandths
VoltageInRangeNoUpper(milli) == milli >= 0
VoltageInRange(milli) == milli >= 0 /\ milli <= 24000

\* newForwardTime >= 10 && newForwardTime <= 60000
TimeInRange(ms) == ms >= 10 /\ ms <= 60000

measVars == <<latestRaw, latestCurrent, accVars, curVars, voltVars>>

\* void handleWebSocketMessage(arg, data, len) for a frame carrying `message`;
\* wholeText is the test on info->final, index, len and opcode
HandleWebSocketMessageStep(message, wholeText, flashOk) ==
    LET value == SubstringFrom(message, 2)
        branch ==
            IF ~wholeText THEN "ignored"
            ELSE IF IndexOf(message, MsgToggle) >= 0 THEN "toggle"
            ELSE IF IndexOf(message, <<"1", "F">>) >= 0
                 THEN IF VoltageInRange(ToFloat(value)) THEN "1F" ELSE "rejected"
            ELSE IF IndexOf(message, <<"2", "F">>) >= 0
                 THEN IF TimeInRange(ToInt(value)) THEN "2F" ELSE "rejected"
            ELSE IF IndexOf(message, <<"2", "R">>) >= 0
                 THEN IF TimeInRange(ToInt(value)) THEN "2R" ELSE "rejected"
            ELSE IF IndexOf(message, MsgResetPeak) >= 0 THEN "reset"
            ELSE IF message = MsgGetValues THEN "getValues"
            ELSE "ignored"
        fv1 == IF branch = "1F" THEN FloatToStr(ToFloat(value)) ELSE FValue1
        fv2 == IF branch = "2F" THEN IntToStr(ToInt(value)) ELSE FValue2
        rv2 == IF branch = "2R" THEN IntToStr(ToInt(value)) ELSE RValue2
        accepted == branch \in {"1F", "2F", "2R"}
    IN  /\ isRunning' = IF branch = "toggle" THEN ~isRunning ELSE isRunning
        /\ FValue1' = fv1
        /\ FValue2' = fv2
        /\ RValue2' = rv2
        /\ ForwardTimeInt' = IF branch = "2F" THEN ToInt(value) ELSE ForwardTimeInt
        /\ ReverseTimeInt' = IF branch = "2R" THEN ToInt(value) ELSE ReverseTimeInt
        /\ IF accepted \/ branch = "reset"
           THEN ResetPeakValuesTo(fv1)
           ELSE UNCHANGED <<accVars, curVars, voltVars>>
        /\ IF accepted
           THEN SaveSettingsTo(fv1, fv2, rv2, flashOk)
           ELSE UNCHANGED settingsFile
        /\ UNCHANGED <<latestRaw, latestCurrent, calibration>>
        /\ lastOp' = [op |-> "ws", message |-> message, branch |-> branch,
                      whole |-> wholeText,
                      saved |-> accepted,
                      notified |-> branch \in {"toggle", "1F", "2F", "2R",
                                               "reset", "getValues"}]

-----------------------------------------------------------------------------
(* The credential table: savedNetworks[MAX_WIFI_NETWORKS] and /networks.json *)

MAX_WIFI_NETWORKS == 5
Slots == 0 .. (MAX_WIFI_NETWORKS - 1)

\* field widths of WiFiCredential: char ssid[33], char password[64],
\* uint8_t priority
SsidChars == 32
PasswordChars == 63
PriorityModulus == 256

\* strncpy(dst, src, n); dst[n] = '\0'
Strncpy(src, n) == IF Len(src) <= n THEN src ELSE SubSeq(src, 1, n)

\* what initMultiNetworkStorage() leaves in every slot
EmptyCredential ==
    [ssid |-> <<>>, password |-> <<>>, priority |-> 0, lastConnected |-> 0,
     isValid |-> FALSE]

EmptyTable == [i \in Slots |-> EmptyCredential]

\* priority++ on a uint8_t
IncrementPriority(priority) == (priority + 1) % PriorityModulus

\* int8_t findNetworkIndex(ssid): the first valid slot holding ssid, or -1
FindNetworkIndex(table, ssid) ==
    LET holds(i) == table[i].isValid /\ table[i].ssid = ssid
    IN  IF \E i \in Slots : holds(i)
        THEN CHOOSE i \in Slots : holds(i) /\ \A j \in Slots : j < i => ~holds(j)
        ELSE -1

\* the comparison of the bubble sort, without the lastConnected tie-break
ShouldSwap_PriorityOnly(a, b) ==
    IF a.isValid /\ b.isValid THEN a.priority < b.priority
    ELSE ~a.isValid /\ b.isValid

\* the comparison of the bubble sort: priority descending, then
\* lastConnected descending, invalid entries last
ShouldSwap(a, b) ==
    IF a.isValid /\ b.isValid
    THEN \/ a.priority < b.priority
         \/ a.priority = b.priority /\ a.lastConnected < b.lastConnected
    ELSE ~a.isValid /\ b.isValid

RECURSIVE SortInnerLoop(_, _, _)
SortInnerLoop(table, i, j) ==
    IF j >= MAX_WIFI_NETWORKS - i - 1 THEN table
    ELSE SortInnerLoop(IF ShouldSwap(table[j], table[j + 1])
                       THEN [table EXCEPT ![j] = table[j + 1],
                                          ![j + 1] = table[j]]
                       ELSE table,
                       i, j + 1)

RECURSIVE SortOuterLoop(_, _)
SortOuterLoop(table, i) ==
    IF i >= MAX_WIFI_NETWORKS - 1 THEN table
    ELSE SortOuterLoop(SortInnerLoop(table, i, 0), i + 1)

\* sortNetworksByPriority() with the outer loop run once
SortNetworksByPriority_OnePass(table) == SortInnerLoop(table, 0, 0)

\* void sortNetworksByPriority()
SortNetworksByPriority(table) == SortOuterLoop(table, 0)

\* the JSON array saveSavedNetworks() builds: the valid entries in slot order
RECURSIVE NetworksDocument(_, _)
NetworksDocument(table, i) ==
    IF i >= MAX_WIFI_NETWORKS THEN <<>>
    ELSE (IF table[i].isValid
          THEN <<[ssid |-> table[i].ssid, password |-> table[i].password,
                  priority |-> table[i].priority,
                  lastConnected |-> table[i].lastConnected]>>
          ELSE <<>>) \o NetworksDocument(table, i + 1)

\* saveSavedNetworks() putting the write off
SavedNetworksFile_WriteBehind(table, flashOk) == networksFile

\* bool saveSavedNetworks(): the file after the call
SavedNetworksFile(table, flashOk) ==
    IF flashOk THEN {NetworksDocument(table, 0)} ELSE networksFile

\* the table addOrUpdateNetwork(ssid, password) leaves, called at millis() = now
AddOrUpdateTable(table, ssid, password, now) ==
    LET existingIndex == FindNetworkIndex(table, ssid)
        firstEmpty == IF \E i \in Slots : ~table[i].isValid
                      THEN CHOOSE i \in Slots :
                              /\ ~table[i].isValid
                              /\ \A j \in Slots : j < i => table[j].isValid
                      ELSE -1
        sorted == IF firstEmpty < 0 THEN SortNetworksByPriority(table) ELSE table
        emptySlot == IF firstEmpty < 0 THEN MAX_WIFI_NETWORKS - 1 ELSE firstEmpty
    IN  IF existingIndex >= 0
        THEN [table EXCEPT
                ![existingIndex].password =
                    IF password # <<>> THEN Strncpy(password, PasswordChars) ELSE @,
                ![existingIndex].lastConnected = now,
                ![existingIndex].priority = IncrementPriority(@)]
        ELSE [sorted EXCEPT
                ![emptySlot] = [ssid |-> Strncpy(ssid, SsidChars),
                                password |-> Strncpy(password, PasswordChars),
                                priority |-> 1,
                                lastConnected |-> now,
                                isValid |-> TRUE]]

\* bool addOrUpdateNetwork(ssid, password)
AddOrUpdateNetworkStep(ssid, password, flashOk) ==
    IF ssid = <<>>
    THEN UNCHANGED netVars
    ELSE /\ savedNetworks' = AddOrUpdateTable(savedNetworks, ssid, password,
                                              millisClock)
         /\ networksFile' = SavedNetworksFile(savedNetworks', flashOk)

\* bool removeNetwork(ssid)
RemoveNetworkStep_FirstSlot(ssid, flashOk) ==
    LET index == FindNetworkIndex(savedNetworks, ssid)
    IN  IF index < 0
        THEN UNCHANGED netVars
        ELSE /\ savedNetworks' = [savedNetworks EXCEPT ![0].isValid = FALSE,
                                                       ![0].ssid = <<>>,
                                                       ![0].password = <<>>]
             /\ networksFile' = SavedNetworksFile(savedNetworks', flashOk)
RemoveNetworkStep(ssid, flashOk) ==
    LET index == FindNetworkIndex(savedNetworks, ssid)
    IN  IF index < 0
        THEN UNCHANGED netVars
        ELSE /\ savedNetworks' = [savedNetworks EXCEPT ![index].isValid = FALSE,
                                                       ![index].ssid = <<>>,
                                                       ![index].password = <<>>]
             /\ networksFile' = SavedNetworksFile(savedNetworks', flashOk)

\* what a successful connectToNetwork(&table[slot]) leaves in the table,
\* WL_CONNECTED having been seen at millis() = now
ConnectedTable(table, slot, now) ==
    [table EXCEPT ![slot].lastConnected = now,
                  ![slot].priority = IncrementPriority(@)]

-----------------------------------------------------------------------------
(* Reconnection with back-off in loop() *)

reconnectInterval == 10000
\* used by loop() but defined in no file of src/; the specification only
\* says the interval "caps at a maximum"
maxReconnectInterval == 300000
StabilizationMs == 30000
NETWORK_CONNECT_TIMEOUT == 15000
\* delay(100) after WiFi.disconnect(), and one delay(500) of the wait loop
DisconnectDelayMs == 100
PollDelayMs == 500

\* the valid slots of a table before slot i
ValidBefore(table, i) == {j \in Slots : j < i /\ table[j].isValid}

\* the slot connectToSavedNetworks() connects to when the networks with the
\* SSIDs in `reachable` accept a connection: the first valid one of the
\* sorted table, or -1 when all fail
FirstReachable_Any(sorted, reachable) ==
    LET ok(i) == sorted[i].isValid /\ sorted[i].ssid \in reachable
    IN  IF \E i \in Slots : ok(i)
        THEN CHOOSE i \in Slots : ok(i) /\ \A j \in Slots : j > i => ~ok(j)
        ELSE -1
FirstReachable(sorted, reachable) ==
    LET ok(i) == sorted[i].isValid /\ sorted[i].ssid \in reachable
    IN  IF \E i \in Slots : ok(i)
        THEN CHOOSE i \in Slots : ok(i) /\ \A j \in Slots : j < i => ~ok(j)
        ELSE -1

\* the for loop of connectToSavedNetworks() from slot i on: the entries it
\* has passed to connectToNetwork(), in that order
RECURSIVE AttemptLoop(_, _, _, _)
AttemptLoop(sorted, reachable, i, log) ==
    IF i >= MAX_WIFI_NETWORKS THEN log
    ELSE IF ~sorted[i].isValid
    THEN AttemptLoop(sorted, reachable, i + 1, log)
    ELSE IF sorted[i].ssid \in reachable THEN Append(log, sorted[i])
    ELSE AttemptLoop(sorted, reachable, i + 1, Append(log, sorted[i]))

\* bool connectToSavedNetworks(): every failed attempt waits for the
\* time-out, a successful one for one poll
ConnectToSavedNetworksStep(reachable, flashOk) ==
    LET sorted == SortNetworksByPriority(savedNetworks)
        slot == FirstReachable(sorted, reachable)
        failedAttempts == IF slot >= 0 THEN Cardinality(ValidBefore(sorted, slot))
                          ELSE Cardinality({j \in Slots : sorted[j].isValid})
        afterFailures == millisClock
                         + failedAttempts * (DisconnectDelayMs + NETWORK_CONNECT_TIMEOUT)
        connectedAt == afterFailures + DisconnectDelayMs + PollDelayMs
    IN  IF slot >= 0
        THEN /\ savedNetworks' = ConnectedTable(sorted, slot, connectedAt)
             /\ networksFile' = SavedNetworksFile(savedNetworks', flashOk)
             /\ millisClock' = connectedAt
             /\ wifiConnected' = TRUE
        ELSE /\ savedNetworks' = sorted
             /\ millisClock' = afterFailures
             /\ UNCHANGED <<networksFile, wifiConnected>>

\* newInterval = interval * 2, capped at maxReconnectInterval
NextInterval(interval) ==
    IF interval * 2 < maxReconnectInterval THEN interval * 2
    ELSE maxReconnectInterval

\* WiFi.status() != WL_CONNECTED && millis() > 30000 &&
\* !wifiManager.getConfigPortalActive(), at millis() = now
ReconnectAllowed_AtOnce(now) == ~wifiConnected /\ ~portalActive
ReconnectAllowed_InPortal(now) == ~wifiConnected /\ now > StabilizationMs
ReconnectAllowed(now) ==
    /\ ~wifiConnected
    /\ now > StabilizationMs
    /\ ~portalActive

\* whether the portal is active after the branch for a failed cycle:
\* if (!wifiManager.getConfigPortalActive()) wifiManager.startConfigPortal()
PortalAfterFailedCycle_NotStarted(active) == active
PortalAfterFailedCycle(active) == TRUE

\* loop(), lines 1232-1297: the deferred start of the web server and the
\* reconnect logic
LoopConnectivityStep(reachable, flashOk) ==
    LET startServer == ~asyncServerStarted /\ wifiConnected /\ ~portalActive
        last1 == IF startServer THEN millisClock ELSE lastReconnectAttempt
        interval1 == IF startServer THEN reconnectInterval
                     ELSE currentReconnectInterval
        disconnected == ReconnectAllowed(millisClock)
        due == disconnected /\ millisClock - last1 >= interval1
    IN  /\ asyncServerStarted' = (asyncServerStarted \/ startServer)
        /\ IF due
           THEN /\ ConnectToSavedNetworksStep(reachable, flashOk)
                /\ lastReconnectAttempt' = millisClock
                /\ cycles' = cycles + 1
                /\ IF wifiConnected'
                   THEN /\ currentReconnectInterval' = reconnectInterval
                        /\ failedCycles' = 0
                        /\ UNCHANGED portalActive
                   ELSE /\ portalActive' = PortalAfterFailedCycle(portalActive)
                        /\ currentReconnectInterval' = NextInterval(interval1)
                        /\ failedCycles' = failedCycles + 1
                /\ lastOp' = [op |-> "loop",
                              cycle |-> IF wifiConnected' THEN "connected"
                                        ELSE "failed"]
           ELSE /\ lastReconnectAttempt' = last1
                /\ currentReconnectInterval' =
                      IF disconnected THEN interval1 ELSE reconnectInterval
                /\ failedCycles' = IF wifiConnected THEN 0 ELSE failedCycles
                /\ lastOp' = [op |-> "loop", cycle |-> "none"]
                /\ UNCHANGED <<millisClock, netVars, wifiConnected, portalActive,
                               cycles>>

-----------------------------------------------------------------------------
(* Device identity: deviceName, hostname and /devicename.json *)

\* snprintf(deviceName, sizeof(deviceName), "OrinTech-%s", chip_id_hex), of a
\* device whose chip id prints as "7"
ChipIdName == <<"O", "r", "i", "n", "T", "e", "c", "h", "-", "7">>

\* char deviceName[64]
DeviceNameSize == 64

\* a device name the user has given in the portal
CustomName == <<"M", "y", "_", "B", "o", "x">>

UpperCase == <<"A", "B", "C", "D", "E", "F", "G", "H", "I", "J", "K", "L", "M",
               "N", "O", "P", "Q", "R", "S", "T", "U", "V", "W", "X", "Y", "Z">>
LowerCase == <<"a", "b", "c", "d", "e", "f", "g", "h", "i", "j", "k", "l", "m",
               "n", "o", "p", "q", "r", "s", "t", "u", "v", "w", "x", "y", "z">>

ToLowerChar(c) ==
    IF \E i \in 1 .. Len(UpperCase) : UpperCase[i] = c
    THEN LowerCase[CHOOSE i \in 1 .. Len(UpperCase) : UpperCase[i] = c]
    ELSE c

\* hostnameStr.replace(" ", "-"); replace("_", "-"); toLowerCase();
\* toCharArray(hostname, sizeof(hostname))
HostnameSafe(name) ==
    Strncpy([i \in 1 .. Len(name) |->
                IF name[i] \in {" ", "_"} THEN "-" ELSE ToLowerChar(name[i])],
            DeviceNameSize - 1)

\* bool saveDeviceName(): the file after the call
SavedDeviceNameFile(name, host, flashOk) ==
    IF flashOk THEN {[deviceName |-> name, hostname |-> host]}
    ELSE deviceNameFile

\* void saveConfigCallback(), the portal having connected to connectedSSID
\* with connectedPass and its device-name field holding newDeviceName
SaveConfigCallbackStep_NameOnly(newDeviceName, connectedSSID, connectedPass, flashOk) ==
    /\ IF Len(newDeviceName) > 0
       THEN /\ deviceName' = Strncpy(newDeviceName, DeviceNameSize)
            /\ hostname' = HostnameSafe(deviceName')
            /\ deviceNameFile' = SavedDeviceNameFile(deviceName', hostname', flashOk)
       ELSE UNCHANGED idVars
    /\ UNCHANGED netVars
SaveConfigCallbackStep(newDeviceName, connectedSSID, connectedPass, flashOk) ==
    /\ IF Len(newDeviceName) > 0
       THEN /\ deviceName' = Strncpy(newDeviceName, DeviceNameSize)
            /\ hostname' = HostnameSafe(deviceName')
            /\ deviceNameFile' = SavedDeviceNameFile(deviceName', hostname', flashOk)
       ELSE UNCHANGED idVars
    /\ IF Len(connectedSSID) > 0
       THEN AddOrUpdateNetworkStep(connectedSSID, connectedPass, flashOk)
       ELSE UNCHANGED netVars

\* void triggerWiFiReset(), up to ESP.restart()
TriggerWiFiResetStep ==
    /\ savedNetworks' = EmptyTable
    /\ networksFile' = NoFile
    /\ deviceNameFile' = NoFile
    /\ hostname' = ChipIdName
    /\ deviceName' = ChipIdName

-----------------------------------------------------------------------------
(* The test button: three presses within five seconds reset the WiFi setup *)

BUTTON_DEBOUNCE_MS == 50
BUTTON_RESET_WINDOW_MS == 5000
BUTTON_RESET_COUNT == 3
PressSlots == 0 .. (BUTTON_RESET_COUNT - 1)

NoPresses == [i \in PressSlots |-> 0]

\* the count detectButtonMultiReset() makes at millis() = now
ValidPresses(stamps, now) ==
    Cardinality({i \in PressSlots :
                    stamps[i] > 0 /\ now - stamps[i] <= BUTTON_RESET_WINDOW_MS})

\* bool detectButtonMultiReset() at millis() = now: its return value, and
\* the timestamps it leaves
DetectResult(stamps, now) == ValidPresses(stamps, now) >= BUTTON_RESET_COUNT

StampsAfterDetect_Kept(stamps, now) == stamps

StampsAfterDetect(stamps, now) ==
    IF DetectResult(stamps, now) THEN NoPresses ELSE stamps

\* void checkButtonMultiReset(), with detectButtonMultiReset() and
\* triggerWiFiReset()
CheckButtonMultiResetStep ==
    LET reading == buttonPin
        currentTime == millisClock
        debounce == IF reading # lastButtonState THEN currentTime
                    ELSE lastDebounceTime
        pressed == /\ currentTime - debounce > BUTTON_DEBOUNCE_MS
                   /\ lastButtonState = HIGH
                   /\ reading = LOW
        stamps == IF pressed
                  THEN [buttonPressTimestamps EXCEPT ![buttonPressIndex] = currentTime]
                  ELSE buttonPressTimestamps
        detected == pressed /\ DetectResult(stamps, currentTime)
    IN  /\ lastDebounceTime' = debounce
        /\ buttonPressIndex' = IF pressed
                               THEN (buttonPressIndex + 1) % BUTTON_RESET_COUNT
                               ELSE buttonPressIndex
        /\ buttonPressTimestamps' = IF pressed
                                    THEN StampsAfterDetect(stamps, currentTime)
                                    ELSE stamps
        /\ restarted' = (restarted \/ detected)
        /\ IF detected
           THEN TriggerWiFiResetStep
           ELSE UNCHANGED <<netVars, idVars>>
        /\ lastButtonState' = reading

-----------------------------------------------------------------------------
(* Connectivity state after setup() of a device without saved networks *)

BootMillis == 5

NetInitWith(table) ==
    /\ savedNetworks = table
    /\ networksFile = IF \E i \in Slots : table[i].isValid
                      THEN {NetworksDocument(table, 0)} ELSE NoFile

LoopInitWith(connected) ==
    /\ wifiConnected = connected
    /\ portalActive = FALSE
    /\ asyncServerStarted = connected
    /\ lastReconnectAttempt = 0
    /\ currentReconnectInterval = reconnectInterval

\* the identity setup() and initWiFi() leave when no name has been saved
IdInitBoot ==
    /\ deviceName = ChipIdName
    /\ hostname = HostnameSafe(ChipIdName)
    /\ deviceNameFile = NoFile

BtnInitBoot ==
    /\ buttonPin = HIGH
    /\ buttonPressTimestamps = NoPresses
    /\ buttonPressIndex = 0
    /\ lastButtonState = HIGH
    /\ lastDebounceTime = 0
    /\ restarted = FALSE

ConnObsInit ==
    /\ netOps = 0
    /\ failedCycles = 0
    /\ cycles = 0
    /\ pressLog = [starts |-> <<>>, lowSince |-> -1]
    /\ btnLoops = 0

ConnInitBoot ==
    /\ millisClock = BootMillis
    /\ NetInitWith(EmptyTable)
    /\ LoopInitWith(FALSE)
    /\ BtnInitBoot
    /\ IdInitBoot
    /\ ConnObsInit

\* loadSavedNetworks() reading no lastConnected from the document
LoadedTable_NoStamp(file) ==
    IF file = NoFile THEN EmptyTable
    ELSE LET doc == CHOOSE d \in file : TRUE
             kept == SelectSeq(doc, LAMBDA n : Len(n.ssid) > 0)
         IN  [i \in Slots |->
                IF i < Len(kept)
                THEN [ssid |-> Strncpy(kept[i + 1].ssid, SsidChars),
                      password |-> Strncpy(kept[i + 1].password, PasswordChars),
                      priority |-> kept[i + 1].priority % PriorityModulus,
                      lastConnected |-> 0,
                      isValid |-> TRUE]
                ELSE EmptyCredential]

\* bool loadSavedNetworks(): the table read from /networks.json
LoadedTable(file) ==
    IF file = NoFile THEN EmptyTable
    ELSE LET doc == CHOOSE d \in file : TRUE
             kept == SelectSeq(doc, LAMBDA n : Len(n.ssid) > 0)
         IN  [i \in Slots |->
                IF i < Len(kept)
                THEN [ssid |-> Strncpy(kept[i + 1].ssid, SsidChars),
                      password |-> Strncpy(kept[i + 1].password, PasswordChars),
                      priority |-> kept[i + 1].priority % PriorityModulus,
                      lastConnected |-> kept[i + 1].lastConnected,
                      isValid |-> TRUE]
                ELSE EmptyCredential]

\* the device name initWiFi() loads from /devicename.json
LoadedDeviceName(file) ==
    IF file = NoFile THEN ChipIdName
    ELSE LET savedName == (CHOOSE d \in file : TRUE).deviceName
         IN  IF Len(savedName) > 0 THEN Strncpy(savedName, DeviceNameSize)
             ELSE ChipIdName

\* WiFi.begin() of initWiFi() waits this long for the stored network
NvsConnectWaitMs == 10000

\* setup(): the connectivity side of a boot.  multiReset is what
\* mrd->detectMultiReset() returns, nvsConnects whether WiFi.begin() reaches
\* the network whose credentials the WiFi driver has stored.
SetupConnectivityStep(multiReset, nvsConnects) ==
    /\ deviceName' = LoadedDeviceName(deviceNameFile)
    /\ hostname' = HostnameSafe(deviceName')
    /\ UNCHANGED deviceNameFile
    /\ IF multiReset
       THEN /\ savedNetworks' = EmptyTable
            /\ networksFile' = NoFile
            /\ portalActive' = TRUE
            /\ wifiConnected' = FALSE
            /\ millisClock' = BootMillis
       ELSE /\ savedNetworks' = LoadedTable(networksFile)
            /\ UNCHANGED networksFile
            /\ portalActive' = FALSE
            /\ wifiConnected' = nvsConnects
            /\ millisClock' = IF nvsConnects THEN BootMillis
                              ELSE BootMillis + NvsConnectWaitMs
    /\ asyncServerStarted' = (wifiConnected' /\ ~portalActive')
    /\ lastReconnectAttempt' = 0
    /\ currentReconnectInterval' = reconnectInterval
    /\ buttonPressTimestamps' = NoPresses
    /\ buttonPressIndex' = 0
    /\ lastButtonState' = HIGH
    /\ lastDebounceTime' = 0
    /\ restarted' = FALSE
    /\ UNCHANGED buttonPin

-----------------------------------------------------------------------------
(* State after setup() with the default settings *)

\* setDefaultSettings(): "14", "100", "100"
DefaultFValue1 == <<"1", "4">>
DefaultFValue2 == <<"1", "0", "0">>
DefaultRValue2 == <<"1", "0", "0">>

WsInitBoot ==
    /\ isRunning = TRUE
    /\ FValue1 = DefaultFValue1
    /\ FValue2 = DefaultFValue2
    /\ RValue2 = DefaultRValue2
    /\ settingsFile = NoFile

\* the loop task before its first iteration, the ADC driver before its first
\* conversion
RunInitBoot ==
    /\ hasResetPeakCurrent = FALSE
    /\ peakResetStartTime = BootMillis
    /\ adcPool = <<>>
    /\ loopPos = [at |-> "top"]
    /\ enablePin = LOW
    /\ adc_buffer = TRUE
    /\ lastAccepted = [voltage |-> ToFloat(DefaultFValue1),
                        forward |-> ToInt(DefaultFValue2),
                        reverse |-> ToInt(DefaultRValue2)]
    /\ lastNotifyTime = 0

\* resetPeakValues() at the end of setup()
AdcInitBoot ==
    /\ calibration = CodeCalibration
    /\ latestRaw = 0
    /\ latestCurrent = 0
    /\ positive_adc_sum = 0
    /\ positive_adc_count = 0
    /\ negative_adc_sum = 0
    /\ negative_adc_count = 0
    /\ peakPositiveCurrent = 0
    /\ peakNegativeCurrent = 0
    /\ averagePositiveCurrent = 0
    /\ averageNegativeCurrent = 0
    /\ peakPositiveVoltage = ToFloat(DefaultFValue1)
    /\ peakNegativeVoltage = ToFloat(DefaultFValue1)
    /\ averagePositiveVoltage = ToFloat(DefaultFValue1)
    /\ averageNegativeVoltage = ToFloat(DefaultFValue1)

\* reversestartTime has just been set to micros() = start: at the end of
\* setup() (direction reverse), or by a flip to direction `dir`
DirInitAt(start, dir) ==
    /\ microsClock = start
    /\ reversestartTime = start
    /\ outputDirection = dir
    /\ directionPin = IF dir THEN HIGH ELSE LOW
    /\ ForwardTimeInt = ToInt(DefaultFValue2)
    /\ ReverseTimeInt = ToInt(DefaultRValue2)

ObsInit ==
    /\ elapsedMs = 0
    /\ ticks = 0
    /\ wrapped = FALSE
    /\ flips = 0
    /\ fedSamples = 0
    /\ frames = 0
    /\ acceptedSamples = [psum |-> 0, pcount |-> 0, nsum |-> 0, ncount |-> 0]
    /\ ConnInitBoot
    /\ pre = [op |-> "setup"]
    /\ lastOp = [op |-> "setup"]

-----------------------------------------------------------------------------
(* The polarity scheduler under arbitrary call times and dwell commands *)

MaxTicks == 6

\* clock advances between two steps, in ms
TickDeltasMs == {10, 90, 2000000}

\* micros() values at which the run starts: just after boot, and shortly
\* before the 32-bit wrap (2^32 - 30000 us)
BootMicros == <<0, 5000>>
StartMicros == {BootMicros, <<65535, 35536>>}

\* frames that set a dwell time: accepted ones and a rejected one
DwellCommands == {<<"2", "F", "1", "0">>, <<"2", "R", "5", "0">>,
                  <<"2", "F", "5">>}

AdvanceMicros(d) ==
    /\ ticks < MaxTicks
    /\ microsClock' = U32Add(microsClock, d * 1000)
    /\ elapsedMs' = elapsedMs + d
    /\ ticks' = ticks + 1
    /\ wrapped' = (wrapped \/ U32Add(microsClock, d * 1000)[1] < microsClock[1])
    /\ UNCHANGED flips

DirTick ==
    /\ \E d \in TickDeltasMs : AdvanceMicros(d)
    /\ lastOp' = [op |-> "tick"]
    /\ UNCHANGED <<reversestartTime, outputDirection, directionPin,
                   ForwardTimeInt, ReverseTimeInt>>
    /\ UNCHANGED <<adcVars, wsVars, runVars, adcObs, wsObs, connVars, pre>>

HandleDirectionSwitching ==
    /\ HandleDirectionSwitchingStep
    /\ lastOp' = [op |-> "handleDirectionSwitching"]
    /\ UNCHANGED <<microsClock, ForwardTimeInt, ReverseTimeInt, ticks, wrapped>>
    /\ UNCHANGED <<adcVars, wsVars, runVars, adcObs, wsObs, connVars, pre>>

\* a WS_EVT_DATA event: handleWebSocketMessage, with the run's observation
WebSocketMessage(message, wholeText, flashOk) ==
    /\ pre' = [op |-> "ws", FValue1 |-> FValue1, FValue2 |-> FValue2,
               RValue2 |-> RValue2, ForwardTimeInt |-> ForwardTimeInt,
               ReverseTimeInt |-> ReverseTimeInt, isRunning |-> isRunning,
               meas |-> <<accVars, curVars, voltVars>>,
               settingsFile |-> settingsFile]
    /\ HandleWebSocketMessageStep(message, wholeText, flashOk)
    /\ acceptedSamples' =
          IF lastOp'.branch \in {"1F", "2F", "2R", "reset"}
          THEN [psum |-> 0, pcount |-> 0, nsum |-> 0, ncount |-> 0]
          ELSE acceptedSamples
    /\ UNCHANGED <<microsClock, reversestartTime, outputDirection, directionPin>>
    /\ UNCHANGED <<runVars, dirObs, fedSamples, connVars>>

DirCommand ==
    /\ \E m \in DwellCommands : WebSocketMessage(m, TRUE, TRUE)
    /\ UNCHANGED frames

InitDir ==
    /\ \E start \in StartMicros : DirInitAt(start, FALSE)
    /\ AdcInitBoot
    /\ WsInitBoot
    /\ RunInitBoot
    /\ ObsInit

NextDir == DirTick \/ HandleDirectionSwitching \/ DirCommand

SpecDir == InitDir /\ [][NextDir]_vars

\* C1: outputDirection changes only in a handleDirectionSwitching call, and
\* only if (now - reversestartTime) mod 2^32, and so the real time elapsed
\* since the last change, is at least the dwell time of the direction that
\* was active (ForwardTimeInt ms when forward, ReverseTimeInt ms when
\* reverse); a call made before expiry changes nothing.
C1_DwellMonotonicity ==
    [][LET dwellMs == IF outputDirection THEN ForwardTimeInt ELSE ReverseTimeInt
           expired == U32Geq(U32Sub(microsClock, reversestartTime), dwellMs * 1000)
       IN  /\ outputDirection' # outputDirection =>
                /\ lastOp'.op = "handleDirectionSwitching"
                /\ expired
                /\ elapsedMs >= dwellMs
           /\ (lastOp'.op = "handleDirectionSwitching" /\ ~expired) =>
                UNCHANGED <<outputDirection, reversestartTime, directionPin>>
      ]_vars

\* C1 witness: a flip after the microsecond clock wrapped, under a dwell time
\* set by command
C1_Witness ==
    /\ lastOp.op = "handleDirectionSwitching"
    /\ flips >= 2
    /\ reversestartTime = microsClock
    /\ wrapped
    /\ ForwardTimeInt = 10

\* C36: in every reachable state the direction output is HIGH if and only if
\* outputDirection is true
C36_PinAgrees == (directionPin = HIGH) <=> outputDirection

\* the polarity has changed three times and the output is forward
C36_Witness ==
    /\ flips >= 3
    /\ outputDirection
    /\ directionPin = HIGH
    /\ lastOp.op = "handleDirectionSwitching"

-----------------------------------------------------------------------------
(* Scenario B: both dwell times 100 ms, handleDirectionSwitching called every
   10 ms for 250 ms from the moment reversestartTime is initialised *)

ScenarioB == [dwellMs |-> 100, stepMs |-> 10, totalMs |-> 250]

InitScenarioB ==
    /\ \E start \in StartMicros, dir \in BOOLEAN : DirInitAt(start, dir)
    /\ ForwardTimeInt = ScenarioB.dwellMs
    /\ ReverseTimeInt = ScenarioB.dwellMs
    /\ AdcInitBoot
    /\ WsInitBoot
    /\ RunInitBoot
    /\ ObsInit

ScenarioBTick ==
    /\ lastOp.op \in {"setup", "handleDirectionSwitching"}
    /\ (ticks + 1) * ScenarioB.stepMs <= ScenarioB.totalMs
    /\ microsClock' = U32Add(microsClock, ScenarioB.stepMs * 1000)
    /\ elapsedMs' = elapsedMs + ScenarioB.stepMs
    /\ ticks' = ticks + 1
    /\ wrapped' = (wrapped \/ U32Add(microsClock, ScenarioB.stepMs * 1000)[1]
                               < microsClock[1])
    /\ lastOp' = [op |-> "tick"]
    /\ UNCHANGED <<reversestartTime, outputDirection, directionPin,
                   ForwardTimeInt, ReverseTimeInt, flips>>
    /\ UNCHANGED <<adcVars, wsVars, runVars, adcObs, wsObs, connVars, pre>>

ScenarioBCall ==
    /\ lastOp.op = "tick"
    /\ HandleDirectionSwitching

NextScenarioB == ScenarioBTick \/ ScenarioBCall

SpecScenarioB == InitScenarioB /\ [][NextScenarioB]_vars

ScenarioBDone ==
    /\ ticks * ScenarioB.stepMs = ScenarioB.totalMs
    /\ lastOp.op = "handleDirectionSwitching"

\* C8: with both dwell times 100 ms and a call every 10 ms, after 250 ms
\* outputDirection has flipped exactly twice (and never more on the way).
C8_ScenarioB == /\ flips <= 2
                /\ ScenarioBDone => flips = 2

\* C8 witness: the end of the 250 ms in a run that crossed the clock wrap,
\* 50 ms after the second flip
C8_Witness == ScenarioBDone /\ flips = 2 /\ wrapped /\ elapsedMs = 50

-----------------------------------------------------------------------------
(* The signal conditioner: process_adc_data and handleMeasurements called in
   any order, with polarity flips and peak resets in between *)

MaxFed == 2
MaxAdcTicks == 1

\* the calibration of Scenario C: slope 1, intercept 0
UnitCalibration == [slope |-> 100000, intercept |-> 0]

\* raw codes the ADC delivers in the runs: under the build's calibration two
\* of negative current (-29.8 A, -20.2 A) and three of positive current
\* (1.0 A, 18.3 A, 37.6 A); under the unit calibration 0 and two small codes
RawCodes(cal) == IF cal = CodeCalibration THEN {500, 1000, 2100, 3000, 4000}
                 ELSE {0, 1, 3}

\* the runs start with accumulators that hold nothing, or that 98 accepted
\* samples of one code have filled
PrefillCounts == {0, MAX_SAMPLES - 2}
PosPrefillCode(cal) == IF cal = CodeCalibration THEN 3000 ELSE 3
NegPrefillCode(cal) == IF cal = CodeCalibration THEN 1000 ELSE 0

\* conversion results: of the sampled channel, and one of another channel
Samples(cal) == [data : RawCodes(cal), match : {TRUE}]
                \cup [data : {PosPrefillCode(cal)}, match : {FALSE}]
Batches(cal) == {<<>>} \cup {<<x>> : x \in Samples(cal)}

\* the measurement state in the middle of a run under calibration cal: the
\* accumulators hold pcount and ncount accepted samples of the prefill codes,
\* and an earlier forward phase of such samples has or has not left its
\* average and peak
MidRun(cal, pcount, ncount, earlier) ==
    /\ calibration = cal
    /\ latestRaw = 0
    /\ latestCurrent = 0
    /\ positive_adc_count = pcount
    /\ positive_adc_sum = pcount * PosPrefillCode(cal)
    /\ negative_adc_count = ncount
    /\ negative_adc_sum = ncount * NegPrefillCode(cal)
    /\ peakPositiveCurrent =
          IF earlier THEN ComputeCurrent(PosPrefillCode(cal)) ELSE 0
    /\ averagePositiveCurrent =
          IF earlier THEN ComputeCurrent(PosPrefillCode(cal)) ELSE 0
    /\ peakNegativeCurrent = 0
    /\ averageNegativeCurrent = 0
    /\ peakPositiveVoltage = ToFloat(DefaultFValue1)
    /\ peakNegativeVoltage = ToFloat(DefaultFValue1)
    /\ averagePositiveVoltage = ToFloat(DefaultFValue1)
    /\ averageNegativeVoltage = ToFloat(DefaultFValue1)
    /\ acceptedSamples = [psum |-> positive_adc_sum, pcount |-> pcount,
                          nsum |-> negative_adc_sum, ncount |-> ncount]

InitAdc ==
    /\ DirInitAt(BootMicros, FALSE)
    /\ WsInitBoot
    /\ RunInitBoot
    /\ \E cal \in {CodeCalibration, UnitCalibration}, earlier \in BOOLEAN,
          pcount \in PrefillCounts :
          \E ncount \in IF cal = CodeCalibration THEN PrefillCounts ELSE {0} :
             MidRun(cal, pcount, ncount, earlier)
    /\ elapsedMs = 0
    /\ ticks = 0
    /\ wrapped = FALSE
    /\ flips = 0
    /\ fedSamples = 0
    /\ frames = 0
    /\ ConnInitBoot
    /\ pre = [op |-> "setup"]
    /\ lastOp = [op |-> "setup"]

\* whether a sample counts for the positive / negative accumulator: its
\* channel is the sampled one, and direction and sign of the current agree
CountsPositive(sample, direction) ==
    /\ sample.match
    /\ direction
    /\ sample.data * calibration.slope + calibration.intercept > 0
CountsNegative(sample, direction) ==
    /\ sample.match
    /\ ~direction
    /\ sample.data * calibration.slope + calibration.intercept < 0

RECURSIVE Tally(_, _, _)
Tally(tally, batch, direction) ==
    IF batch = <<>> THEN tally
    ELSE LET x == Head(batch)
             t == IF CountsPositive(x, direction)
                  THEN [tally EXCEPT !.psum = @ + x.data, !.pcount = @ + 1]
                  ELSE IF CountsNegative(x, direction)
                  THEN [tally EXCEPT !.nsum = @ + x.data, !.ncount = @ + 1]
                  ELSE tally
         IN  Tally(t, Tail(batch), direction)

Accumulators == [psum |-> positive_adc_sum, pcount |-> positive_adc_count,
                 nsum |-> negative_adc_sum, ncount |-> negative_adc_count]

ProcessAdcData ==
    /\ fedSamples < MaxFed
    /\ \E batch \in Batches(calibration) :
          /\ ProcessAdcDataStep(batch)
          /\ lastOp' = [op |-> "process_adc_data", batch |-> batch]
          /\ acceptedSamples' = Tally(acceptedSamples, batch, outputDirection)
          /\ fedSamples' = fedSamples + Len(batch)
    /\ pre' = [op |-> "process_adc_data", direction |-> outputDirection,
               acc |-> Accumulators]
    /\ UNCHANGED <<calibration, curVars, voltVars>>
    /\ UNCHANGED <<dirVars, wsVars, runVars, dirObs, wsObs, connVars>>

HandleMeasurements ==
    /\ HandleMeasurementsStep
    /\ lastOp' = [op |-> "handleMeasurements"]
    /\ pre' = [op |-> "handleMeasurements",
               posFull |-> positive_adc_count >= MAX_SAMPLES,
               negFull |-> negative_adc_count >= MAX_SAMPLES,
               acc |-> Accumulators,
               counted |-> acceptedSamples,
               direction |-> outputDirection,
               latestCurrent |-> latestCurrent,
               peakPositiveCurrent |-> peakPositiveCurrent,
               peakNegativeCurrent |-> peakNegativeCurrent,
               averageNegativeCurrent |-> averageNegativeCurrent]
    /\ acceptedSamples' =
          [psum |-> IF positive_adc_count >= MAX_SAMPLES THEN 0
                    ELSE acceptedSamples.psum,
           pcount |-> IF positive_adc_count >= MAX_SAMPLES THEN 0
                      ELSE acceptedSamples.pcount,
           nsum |-> IF negative_adc_count >= MAX_SAMPLES THEN 0
                    ELSE acceptedSamples.nsum,
           ncount |-> IF negative_adc_count >= MAX_SAMPLES THEN 0
                      ELSE acceptedSamples.ncount]
    /\ UNCHANGED <<calibration, latestRaw, latestCurrent, voltVars, fedSamples>>
    /\ UNCHANGED <<dirVars, wsVars, runVars, dirObs, wsObs, connVars>>

AdcTick ==
    /\ ticks < MaxAdcTicks
    /\ AdvanceMicros(ToInt(DefaultFValue2))
    /\ lastOp' = [op |-> "tick"]
    /\ UNCHANGED <<reversestartTime, outputDirection, directionPin,
                   ForwardTimeInt, ReverseTimeInt>>
    /\ UNCHANGED <<adcVars, wsVars, runVars, adcObs, wsObs, connVars, pre>>

AdcReset ==
    /\ lastOp.op # "ws"
    /\ WebSocketMessage(MsgResetPeak, TRUE, TRUE)
    /\ UNCHANGED frames

NextAdc == \/ ProcessAdcData
           \/ HandleMeasurements
           \/ HandleDirectionSwitching
           \/ AdcTick
           \/ AdcReset

SpecAdc == InitAdc /\ [][NextAdc]_vars


\* C2: a sample handled by process_adc_data is added to the positive
\* accumulator (sum and count) iff the batch's direction is forward and its
\* current is > 0, to the negative accumulator iff the direction is reverse
\* and its current is < 0; any other sample changes no sum and no count.
C2_SignGatedAccumulation ==
    lastOp.op = "process_adc_data" =>
        Accumulators = Tally(pre.acc, lastOp.batch, pre.direction)

\* C2 witness: a sample of negative current handled in forward direction,
\* dropped, while the positive accumulator holds samples
C2_Witness ==
    /\ lastOp.op = "process_adc_data"
    /\ lastOp.batch # <<>>
    /\ lastOp.batch[1].match
    /\ pre.direction
    /\ latestCurrent < 0
    /\ latestRaw = lastOp.batch[1].data
    /\ positive_adc_count > 0
    /\ Accumulators = pre.acc

\* the value the claims expect for a negative reading
ExpectedNegative(fresh, positive) ==
    IF 10 * Abs(fresh) >= 11 * Abs(positive) THEN -positive ELSE fresh

\* (sum / count) * slope + intercept
ExpectedAverage(sum, count) ==
    (sum * calibration.slope) \div count + calibration.intercept

\* C3: when handleMeasurements stores a new negative average or a new
\* negative peak, the stored value is the negated positive counterpart if
\* |fresh| >= 1.1 * |positive counterpart|, and the fresh value otherwise.
C3_SaturationClamp ==
    lastOp.op = "handleMeasurements" =>
        /\ pre.negFull =>
              averageNegativeCurrent =
                ExpectedNegative(ExpectedAverage(pre.acc.nsum, pre.acc.ncount),
                                 averagePositiveCurrent)
        /\ (~pre.direction /\ pre.latestCurrent < pre.peakNegativeCurrent) =>
              peakNegativeCurrent =
                ExpectedNegative(pre.latestCurrent, peakPositiveCurrent)

\* C3 witness: a drained negative average clamped to the negated, non-zero
\* positive average
C3_Witness ==
    /\ lastOp.op = "handleMeasurements"
    /\ pre.negFull
    /\ averagePositiveCurrent > 0
    /\ averageNegativeCurrent = -averagePositiveCurrent
    /\ ExpectedAverage(pre.acc.nsum, pre.acc.ncount) # averageNegativeCurrent

\* C9 as stated: when a count has reached MAX_SAMPLES, handleMeasurements
\* publishes (sum / count) * slope + intercept over the samples accepted
\* since the last drain or reset, for either accumulator, and zeroes it.
C9_AsStated ==
    /\ Accumulators = acceptedSamples
    /\ lastOp.op = "handleMeasurements" =>
          /\ pre.posFull =>
                /\ averagePositiveCurrent =
                      ExpectedAverage(pre.counted.psum, pre.counted.pcount)
                /\ positive_adc_sum = 0 /\ positive_adc_count = 0
          /\ pre.negFull =>
                /\ averageNegativeCurrent =
                      ExpectedAverage(pre.counted.nsum, pre.counted.ncount)
                /\ negative_adc_sum = 0 /\ negative_adc_count = 0

\* C9 amended: as stated for the positive accumulator; the negative average
\* published is that value unless its magnitude is >= 1.1 times that of the
\* positive average, and then the negated positive average; with slope 1
\* and intercept 0 the positive average of 100 samples is their mean.
C9_DrainAverage ==
    /\ Accumulators = acceptedSamples
    /\ lastOp.op = "handleMeasurements" =>
          /\ pre.posFull =>
                /\ averagePositiveCurrent =
                      ExpectedAverage(pre.counted.psum, pre.counted.pcount)
                /\ positive_adc_sum = 0 /\ positive_adc_count = 0
                /\ (calibration = UnitCalibration /\ pre.counted.pcount = MAX_SAMPLES)
                      => averagePositiveCurrent * MAX_SAMPLES
                           = pre.counted.psum * UnitCalibration.slope
          /\ pre.negFull =>
                /\ averageNegativeCurrent =
                      ExpectedNegative(
                        ExpectedAverage(pre.counted.nsum, pre.counted.ncount),
                        averagePositiveCurrent)
                /\ negative_adc_sum = 0 /\ negative_adc_count = 0

\* C9 witness: under slope 1 and intercept 0, a drain of 100 forward samples
\* of different codes
C9_Witness ==
    /\ lastOp.op = "handleMeasurements"
    /\ calibration = UnitCalibration
    /\ pre.posFull
    /\ pre.counted.pcount = MAX_SAMPLES
    /\ pre.counted.psum % MAX_SAMPLES # 0
    /\ positive_adc_count = 0

-----------------------------------------------------------------------------
(* The WebSocket command handler under frames of any of the command kinds *)

MaxFrames == 2

\* the value texts of the set commands in the runs, with their numeric value
\* in thousandths
CommandValues ==
    { [text |-> <<"3", "0">>, milli |-> 30000],
      [text |-> <<"2", "4">>, milli |-> 24000],
      [text |-> <<"7", ".", "5">>, milli |-> 7500],
      [text |-> <<"-", "1">>, milli |-> -1000],
      [text |-> <<"1", "0">>, milli |-> 10000],
      [text |-> <<"9", ".", "9">>, milli |-> 9900],
      [text |-> <<"6", "0", "0", "0", "0">>, milli |-> 60000000],
      [text |-> <<"6", "0", "0", "0", "1">>, milli |-> 60001000],
      [text |-> <<"6", "0", "0", "0", "0", ".", "5">>, milli |-> 60000500] }

CommandPrefixes == {<<"1", "F">>, <<"2", "F">>, <<"2", "R">>}

SetCommands == {p \o v.text : p \in CommandPrefixes, v \in CommandValues}

\* set commands whose value text is empty or is not a number
MalformedCommands == {<<"1", "F">>, <<"1", "F", "a", "b", "c">>,
                      <<"2", "F">>, <<"2", "R", "x">>}

WsFrames == SetCommands \cup MalformedCommands
                \cup {MsgToggle, MsgResetPeak, MsgGetValues,
                      <<"p", "i", "n", "g">>}

\* the numeric value a set command carries, in thousandths
NumericValue(message) ==
    (CHOOSE v \in CommandValues : v.text = SubstringFrom(message, 2)).milli

InitWs ==
    /\ DirInitAt(BootMicros, FALSE)
    /\ WsInitBoot
    /\ RunInitBoot
    /\ \E earlier \in BOOLEAN, pcount \in PrefillCounts :
          MidRun(CodeCalibration, pcount, 0, earlier)
    /\ elapsedMs = 0
    /\ ticks = 0
    /\ wrapped = FALSE
    /\ flips = 0
    /\ fedSamples = 0
    /\ frames = 0
    /\ ConnInitBoot
    /\ pre = [op |-> "setup"]
    /\ lastOp = [op |-> "setup"]

WsFrame ==
    /\ frames < MaxFrames
    /\ frames' = frames + 1
    /\ \E message \in WsFrames, wholeText \in BOOLEAN, flashOk \in BOOLEAN :
          /\ wholeText \/ flashOk
          /\ WebSocketMessage(message, wholeText, flashOk)

NextWs == WsFrame

SpecWs == InitWs /\ [][NextWs]_vars

\* what a frame that is rejected as a whole leaves behind
RejectedAsAWhole ==
    /\ FValue1 = pre.FValue1
    /\ FValue2 = pre.FValue2
    /\ RValue2 = pre.RValue2
    /\ ForwardTimeInt = pre.ForwardTimeInt
    /\ ReverseTimeInt = pre.ReverseTimeInt
    /\ <<accVars, curVars, voltVars>> = pre.meas
    /\ settingsFile = pre.settingsFile
    /\ ~lastOp.saved
    /\ ~lastOp.notified

\* C7 as stated: a 1F command with a numeric value outside [0, 24], or a 2F
\* or 2R command with a numeric value outside [10, 60000], is rejected as a
\* whole.
C7_AsStated ==
    (/\ lastOp.op = "ws"
     /\ lastOp.whole
     /\ lastOp.message \in SetCommands
     /\ LET v == NumericValue(lastOp.message)
        IN  IF lastOp.message[1] = "1"
            THEN v < 0 \/ v > 24000
            ELSE v < 10000 \/ v > 60000000)
    => RejectedAsAWhole

\* C7 amended: a 1F command whose value text reads, as a decimal number, as
\* a value outside [0, 24], or a 2F or 2R command whose value text reads, up
\* to its first non-digit character, as an integer outside [10, 60000], is
\* rejected as a whole.
C7_RejectedAsAWhole ==
    (/\ lastOp.op = "ws"
     /\ lastOp.whole
     /\ lastOp.message \in SetCommands
     /\ LET v == NumericValue(lastOp.message)
            truncated == v \div 1000
        IN  IF lastOp.message[1] = "1"
            THEN v < 0 \/ v > 24000
            ELSE truncated < 10 \/ truncated > 60000)
    => RejectedAsAWhole

\* C7 witness: a 1F command of 30 V rejected after an accepted command has
\* written the settings file
C7_Witness ==
    /\ lastOp.op = "ws"
    /\ lastOp.whole
    /\ lastOp.message = <<"1", "F", "3", "0">>
    /\ lastOp.branch = "rejected"
    /\ settingsFile # NoFile
    /\ FValue2 = <<"6", "0", "0", "0", "0">>
    /\ RejectedAsAWhole

\* C26 as stated: a message that is not a recognised command, and a set
\* command (1F, 2F, 2R) whose value text is empty or not a number, are rejected
\* with no state change: the target voltage, the dwell times, the run state,
\* the peaks and the persisted settings are all left as they were
C26_AsStated ==
    (/\ lastOp.op = "ws"
     /\ lastOp.whole
     /\ lastOp.message \in MalformedCommands \cup {<<"p", "i", "n", "g">>})
    => /\ FValue1 = pre.FValue1
       /\ FValue2 = pre.FValue2
       /\ RValue2 = pre.RValue2
       /\ ForwardTimeInt = pre.ForwardTimeInt
       /\ ReverseTimeInt = pre.ReverseTimeInt
       /\ isRunning = pre.isRunning
       /\ <<accVars, curVars, voltVars>> = pre.meas
       /\ settingsFile = pre.settingsFile

-----------------------------------------------------------------------------
(* The credential table under additions, updates, removals and successful
   connections *)

MaxNetOps == 2

\* SSIDs of at most 32 characters, one of them of exactly 32
Ssid32 == [i \in 1 .. SsidChars |-> "x"]
TableSsids == <<(<<"a">>), (<<"b">>), (<<"c">>), (<<"d">>), (<<"e">>)>>
NetSsids == {<<>>, <<"a">>, <<"c">>, <<"f">>, <<"g">>, Ssid32}
NetPasswords == {<<>>, <<"p">>}
NetTickMs == 1000

\* the table a sequence of calls leaves: each element is a call of
\* addOrUpdateNetwork or removeNetwork with the value of millis() at the call
RECURSIVE TableAfter(_, _)
TableAfter(table, calls) ==
    IF calls = <<>> THEN table
    ELSE LET c == Head(calls)
             index == FindNetworkIndex(table, c.ssid)
             next == IF c.call = "add"
                     THEN AddOrUpdateTable(table, c.ssid, <<"p">>, c.now)
                     ELSE IF index < 0 THEN table
                     ELSE [table EXCEPT ![index].isValid = FALSE,
                                        ![index].ssid = <<>>,
                                        ![index].password = <<>>]
         IN  TableAfter(next, Tail(calls))

\* five networks added one after the other
FiveAdded == [i \in 1 .. MAX_WIFI_NETWORKS |->
                [call |-> "add", ssid |-> TableSsids[i], now |-> 10 * i]]

\* tables the runs start from, each the result of calls on the empty table
StartTables ==
    { EmptyTable,
      TableAfter(EmptyTable, FiveAdded),
      \* b removed and added again, d and e used again
      TableAfter(EmptyTable,
                 FiveAdded \o <<[call |-> "remove", ssid |-> <<"b">>, now |-> 60],
                                [call |-> "add", ssid |-> <<"b">>, now |-> 70],
                                [call |-> "add", ssid |-> <<"d">>, now |-> 80],
                                [call |-> "add", ssid |-> <<"e">>, now |-> 80]>>),
      \* a used twice and c once, d removed
      TableAfter(EmptyTable,
                 FiveAdded \o <<[call |-> "add", ssid |-> <<"a">>, now |-> 60],
                                [call |-> "add", ssid |-> <<"a">>, now |-> 70],
                                [call |-> "add", ssid |-> <<"c">>, now |-> 70],
                                [call |-> "remove", ssid |-> <<"d">>, now |-> 90]>>) }

InitNetWith(table) ==
    /\ DirInitAt(BootMicros, FALSE)
    /\ AdcInitBoot
    /\ WsInitBoot
    /\ RunInitBoot
    /\ elapsedMs = 0
    /\ ticks = 0
    /\ wrapped = FALSE
    /\ flips = 0
    /\ fedSamples = 0
    /\ frames = 0
    /\ acceptedSamples = [psum |-> 0, pcount |-> 0, nsum |-> 0, ncount |-> 0]
    /\ millisClock = NetTickMs
    /\ NetInitWith(table)
    /\ LoopInitWith(TRUE)
    /\ BtnInitBoot
    /\ IdInitBoot
    /\ ConnObsInit
    /\ pre = [op |-> "setup"]
    /\ lastOp = [op |-> "setup"]

InitNet == \E table \in StartTables : InitNetWith(table)

\* what a step on the credential table leaves alone
NetFrame ==
    /\ UNCHANGED <<ctlVars, loopVars, btnVars, idVars>>
    /\ UNCHANGED <<failedCycles, cycles, pressLog, btnLoops>>

AddOrUpdateNetwork(ssid, password, flashOk) ==
    /\ AddOrUpdateNetworkStep(ssid, password, flashOk)
    /\ pre' = [op |-> "addOrUpdateNetwork", table |-> savedNetworks,
               file |-> networksFile, now |-> millisClock]
    /\ lastOp' = [op |-> "addOrUpdateNetwork", ssid |-> ssid,
                  password |-> password, flashOk |-> flashOk]
    /\ netOps' = netOps + 1
    /\ UNCHANGED millisClock
    /\ NetFrame

RemoveNetwork(ssid, flashOk) ==
    /\ RemoveNetworkStep(ssid, flashOk)
    /\ pre' = [op |-> "removeNetwork", table |-> savedNetworks,
               file |-> networksFile, now |-> millisClock]
    /\ lastOp' = [op |-> "removeNetwork", ssid |-> ssid, flashOk |-> flashOk,
                  result |-> FindNetworkIndex(savedNetworks, ssid) >= 0 /\ flashOk]
    /\ netOps' = netOps + 1
    /\ UNCHANGED millisClock
    /\ NetFrame

\* bool connectToNetwork(&savedNetworks[slot]) when the network accepts the
\* connection at the first poll
ConnectToNetwork(slot, flashOk) ==
    /\ savedNetworks[slot].isValid
    /\ millisClock' = millisClock + DisconnectDelayMs + PollDelayMs
    /\ savedNetworks' = ConnectedTable(savedNetworks, slot, millisClock')
    /\ networksFile' = SavedNetworksFile(savedNetworks', flashOk)
    /\ pre' = [op |-> "connectToNetwork", table |-> savedNetworks,
               file |-> networksFile, now |-> millisClock]
    /\ lastOp' = [op |-> "connectToNetwork", slot |-> slot, flashOk |-> flashOk]
    /\ netOps' = netOps + 1
    /\ UNCHANGED <<wifiConnected, portalActive, asyncServerStarted,
                   lastReconnectAttempt, currentReconnectInterval>>
    /\ UNCHANGED <<ctlVars, btnVars, idVars, failedCycles, cycles, pressLog,
                   btnLoops>>

NetAddOrUpdate ==
    /\ netOps < MaxNetOps
    /\ \E ssid \in NetSsids, password \in NetPasswords, flashOk \in BOOLEAN :
          /\ flashOk \/ ssid = <<"f">>
          /\ AddOrUpdateNetwork(ssid, password, flashOk)

NetRemove ==
    /\ netOps < MaxNetOps
    /\ \E ssid \in NetSsids \ {<<>>} : RemoveNetwork(ssid, TRUE)

NetConnect ==
    /\ netOps < MaxNetOps
    /\ \E slot \in Slots : ConnectToNetwork(slot, TRUE)

NetTick ==
    /\ netOps < MaxNetOps
    /\ lastOp.op # "tick"
    /\ millisClock' = millisClock + NetTickMs
    /\ lastOp' = [op |-> "tick"]
    /\ UNCHANGED <<netVars, netOps, pre>>
    /\ NetFrame

\* the portal has connected to a network and calls saveConfigCallback();
\* WiFi.SSID() is at most 32 characters long
SaveConfigCallback(newDeviceName, connectedSSID, connectedPass, flashOk) ==
    /\ SaveConfigCallbackStep(newDeviceName, connectedSSID, connectedPass, flashOk)
    /\ pre' = [op |-> "saveConfigCallback", table |-> savedNetworks,
               file |-> networksFile, now |-> millisClock]
    /\ lastOp' = [op |-> "saveConfigCallback", deviceName |-> newDeviceName,
                  ssid |-> connectedSSID, password |-> connectedPass,
                  flashOk |-> flashOk]
    /\ netOps' = netOps + 1
    /\ UNCHANGED millisClock
    /\ UNCHANGED <<ctlVars, loopVars, btnVars>>
    /\ UNCHANGED <<failedCycles, cycles, pressLog, btnLoops>>

NetPortalSave ==
    /\ netOps < MaxNetOps
    /\ \E newDeviceName \in {<<>>, CustomName}, ssid \in NetSsids,
          password \in NetPasswords, flashOk \in BOOLEAN :
          /\ flashOk \/ ssid = <<"f">>
          /\ newDeviceName = <<>> \/ ssid \in {<<>>, <<"f">>}
          /\ SaveConfigCallback(newDeviceName, ssid, password, flashOk)

\* three presses of the button: triggerWiFiReset() up to ESP.restart()
TriggerWiFiReset ==
    /\ TriggerWiFiResetStep
    /\ pre' = [op |-> "triggerWiFiReset", table |-> savedNetworks,
               file |-> networksFile, now |-> millisClock]
    /\ lastOp' = [op |-> "triggerWiFiReset", flashOk |-> TRUE]
    /\ netOps' = netOps + 1
    /\ UNCHANGED millisClock
    /\ UNCHANGED <<ctlVars, loopVars, btnVars>>
    /\ UNCHANGED <<failedCycles, cycles, pressLog, btnLoops>>

NetWiFiReset ==
    /\ netOps < MaxNetOps
    /\ TriggerWiFiReset

NextNet == \/ NetAddOrUpdate
           \/ NetRemove
           \/ NetConnect
           \/ NetTick
           \/ NetPortalSave
           \/ NetWiFiReset

SpecNet == InitNet /\ [][NextNet]_vars

\* the valid entries of a table equal to entry e, counted
CountOf(table, e) ==
    Cardinality({i \in Slots : table[i].isValid /\ table[i] = e})

\* e is a lowest entry of the table: no valid entry has a lower priority, or
\* the same priority and a smaller lastConnected
IsLowest(table, e) ==
    \A i \in Slots :
        table[i].isValid =>
            \/ e.priority < table[i].priority
            \/ e.priority = table[i].priority
               /\ e.lastConnected <= table[i].lastConnected

\* C5: addOrUpdateNetwork with an SSID not in the table while all 5 slots
\* are valid removes exactly one entry, a lowest one by priority and then by
\* lastConnected; the other four are kept unchanged and the new SSID is
\* present with priority 1.
C5_EvictsLowest ==
    (/\ lastOp.op = "addOrUpdateNetwork"
     /\ lastOp.ssid # <<>>
     /\ \A i \in Slots : pre.table[i].isValid /\ pre.table[i].ssid # lastOp.ssid)
    => /\ \A i \in Slots : savedNetworks[i].isValid
       /\ \E gone \in Slots, new \in Slots :
            /\ IsLowest(pre.table, pre.table[gone])
            /\ savedNetworks[new].ssid = lastOp.ssid
            /\ savedNetworks[new].priority = 1
            /\ \A i \in Slots :
                 /\ CountOf(savedNetworks, pre.table[i])
                      = CountOf(pre.table, pre.table[i])
                        - (IF pre.table[i] = pre.table[gone] THEN 1 ELSE 0)
                 /\ i # new =>
                      CountOf(pre.table, savedNetworks[i]) >= 1

\* C5 witness: f added to the table of five priority-1 networks, a being the
\* oldest: a is gone
C5_Witness ==
    /\ lastOp.op = "addOrUpdateNetwork"
    /\ lastOp.ssid = <<"f">>
    /\ \A i \in Slots : pre.table[i].isValid /\ pre.table[i].priority = 1
    /\ \A i \in Slots : savedNetworks[i].isValid /\ savedNetworks[i].ssid # <<"a">>
    /\ \E i \in Slots : savedNetworks[i].ssid = <<"f">>
    /\ \E i \in Slots : pre.table[i].ssid = <<"a">>

\* the credentials a table holds for SSIDs other than ssid
OtherCredentials(table, ssid) ==
    {[ssid |-> table[i].ssid, password |-> table[i].password,
      priority |-> table[i].priority, lastConnected |-> table[i].lastConnected] :
        i \in {j \in Slots : table[j].isValid /\ table[j].ssid # ssid}}

\* C16: after saveConfigCallback has run with a non-empty connected SSID,
\* that SSID is a valid entry of the table; the credentials stored for other
\* SSIDs are among those stored before, and they are all still there when
\* the SSID was already in the table or a slot was free.
C16_PortalSaveKeepsOthers ==
    (lastOp.op = "saveConfigCallback" /\ lastOp.ssid # <<>>) =>
        LET roomy == \/ \E i \in Slots : ~pre.table[i].isValid
                     \/ \E i \in Slots : /\ pre.table[i].isValid
                                          /\ pre.table[i].ssid = lastOp.ssid
        IN  /\ \E i \in Slots : /\ savedNetworks[i].isValid
                                 /\ savedNetworks[i].ssid = lastOp.ssid
            /\ OtherCredentials(savedNetworks, lastOp.ssid)
                  \subseteq OtherCredentials(pre.table, lastOp.ssid)
            /\ roomy => OtherCredentials(savedNetworks, lastOp.ssid)
                           = OtherCredentials(pre.table, lastOp.ssid)

\* the callback has added a new SSID to a table that held others and had a
\* free slot
C16_Witness ==
    /\ lastOp.op = "saveConfigCallback"
    /\ lastOp.ssid # <<>>
    /\ \A i \in Slots : pre.table[i].isValid => pre.table[i].ssid # lastOp.ssid
    /\ \E i \in Slots : ~pre.table[i].isValid
    /\ OtherCredentials(pre.table, lastOp.ssid) # {}
    /\ \E i \in Slots : savedNetworks[i].isValid /\ savedNetworks[i].ssid = lastOp.ssid

\* C20 as stated: addOrUpdateNetwork with an SSID that a valid entry holds
\* changes only that entry: its password is the given one iff that is
\* non-empty, its priority is one more than before, its lastConnected is
\* millis(); no other slot changes and as many entries are valid as before.
\* With an SSID no valid entry holds and a slot free, one free slot gets the
\* SSID, the password, priority 1 and lastConnected = millis(), and no other
\* slot changes.
C20_AsStated ==
    (lastOp.op = "addOrUpdateNetwork" /\ lastOp.ssid # <<>>) =>
        LET old == pre.table
            holders == {i \in Slots : old[i].isValid /\ old[i].ssid = lastOp.ssid}
            free == {i \in Slots : ~old[i].isValid}
        IN  IF holders # {}
            THEN \E i \in holders :
                    /\ savedNetworks[i] =
                          [old[i] EXCEPT
                             !.password = IF lastOp.password # <<>>
                                          THEN lastOp.password ELSE @,
                             !.priority = @ + 1,
                             !.lastConnected = pre.now]
                    /\ \A j \in Slots \ {i} : savedNetworks[j] = old[j]
                    /\ Cardinality({j \in Slots : savedNetworks[j].isValid})
                          = Cardinality({j \in Slots : old[j].isValid})
            ELSE free # {} =>
                    \E i \in free :
                       /\ savedNetworks[i] =
                             [ssid |-> lastOp.ssid, password |-> lastOp.password,
                              priority |-> 1, lastConnected |-> pre.now,
                              isValid |-> TRUE]
                       /\ \A j \in Slots \ {i} : savedNetworks[j] = old[j]

\* the entries of the persisted network document; no file holds none
DocumentEntries(file) ==
    IF file = NoFile THEN <<>> ELSE CHOOSE doc \in file : TRUE

\* a credential as an entry of ValidEntries
EntryOf(c) == [ssid |-> c.ssid, password |-> c.password,
               priority |-> c.priority, lastConnected |-> c.lastConnected]

\* the valid entries of a table, with the fields the document records
ValidEntries(table) ==
    { [ssid |-> table[i].ssid, password |-> table[i].password,
       priority |-> table[i].priority,
       lastConnected |-> table[i].lastConnected] :
          i \in { k \in Slots : table[k].isValid } }

TableMutators ==
    {"addOrUpdateNetwork", "removeNetwork", "connectToNetwork",
     "saveConfigCallback", "triggerWiFiReset"}

\* C22: immediately after every operation that changes a slot of the table
\* (addOrUpdateNetwork, removeNetwork, a successful connectToNetwork, a WiFi
\* reset), and provided the flash write succeeds, the persisted network
\* document holds exactly the valid in-memory entries with the same field
\* values; if the write fails the table still holds the new values
C22_WriteThrough ==
    lastOp.op \in TableMutators /\ savedNetworks # pre.table =>
        LET doc == DocumentEntries(networksFile)
        IN  IF lastOp.flashOk
            THEN /\ { doc[k] : k \in 1 .. Len(doc) } = ValidEntries(savedNetworks)
                 /\ Len(doc) = Cardinality({ k \in Slots : savedNetworks[k].isValid })
            ELSE /\ networksFile = pre.file
                 /\ \E i \in Slots :
                       /\ savedNetworks[i].isValid
                       /\ savedNetworks[i].ssid = lastOp.ssid
                       /\ lastOp.password # <<>>
                             => savedNetworks[i].password = lastOp.password
                       /\ savedNetworks[i].lastConnected = pre.now

\* an update, a removal, a connection and a reset each written through, and
\* an addition whose write failed
C22_Witness ==
    /\ lastOp.op \in TableMutators
    /\ savedNetworks # pre.table
    /\ \/ /\ lastOp.op = "addOrUpdateNetwork"
          /\ lastOp.flashOk
          /\ FindNetworkIndex(pre.table, lastOp.ssid) >= 0
          /\ networksFile # pre.file
       \/ /\ lastOp.op = "addOrUpdateNetwork"
          /\ ~lastOp.flashOk
          /\ pre.file # NoFile
       \/ /\ lastOp.op = "connectToNetwork"
          /\ networksFile # pre.file
       \/ /\ lastOp.op = "removeNetwork"
          /\ networksFile # pre.file
          /\ \E i \in Slots : savedNetworks[i].isValid
       \/ /\ lastOp.op = "triggerWiFiReset"
          /\ pre.file # NoFile
          /\ networksFile = NoFile

\* C35: removeNetwork(ssid) for an SSID that is a valid entry leaves the SSID
\* absent from the table (findNetworkIndex returns -1), every other slot as it
\* was, and the document holding the valid entries that remain; for an SSID
\* that is not present it returns false and changes neither table nor file
C35_RemoveFrame ==
    lastOp.op = "removeNetwork" =>
        LET index == FindNetworkIndex(pre.table, lastOp.ssid)
            doc == DocumentEntries(networksFile)
        IN  IF index >= 0
            THEN /\ FindNetworkIndex(savedNetworks, lastOp.ssid) = -1
                 /\ \A i \in Slots \ {index} : savedNetworks[i] = pre.table[i]
                 /\ ValidEntries(savedNetworks) =
                       ValidEntries(pre.table) \ {EntryOf(pre.table[index])}
                 /\ lastOp.flashOk =>
                       /\ lastOp.result
                       /\ networksFile # NoFile
                       /\ {doc[k] : k \in 1 .. Len(doc)} = ValidEntries(savedNetworks)
                       /\ Len(doc) = Cardinality(ValidEntries(savedNetworks))
            ELSE /\ ~lastOp.result
                 /\ savedNetworks = pre.table
                 /\ networksFile = pre.file

\* a network in a slot other than the first has been removed from a table
\* that keeps others, and the document has been rewritten
C35_Witness ==
    /\ lastOp.op = "removeNetwork"
    /\ FindNetworkIndex(pre.table, lastOp.ssid) > 0
    /\ \E i \in Slots : savedNetworks[i].isValid
    /\ networksFile # pre.file
    /\ netOps = 2

-----------------------------------------------------------------------------
(* One network used again and again, from the empty table *)

MaxLongOps == 256

InitNetLong == InitNetWith(EmptyTable)

\* the network is chosen again in the portal
LongAddOrUpdate ==
    /\ netOps < MaxLongOps
    /\ AddOrUpdateNetwork(<<"a">>, <<>>, TRUE)

\* the device reconnects to the network
LongConnect ==
    /\ netOps < MaxLongOps
    /\ ConnectToNetwork(0, TRUE)

NextNetLong == LongAddOrUpdate \/ LongConnect

SpecNetLong == InitNetLong /\ [][NextNetLong]_vars

\* C4 as stated: after any sequence of addOrUpdateNetwork, removeNetwork and
\* successful connectToNetwork calls from the empty table, at most 5 entries
\* are valid, no two valid entries have the same SSID, and every valid entry
\* has priority >= 1.
C4_AsStated ==
    /\ Cardinality({i \in Slots : savedNetworks[i].isValid}) <= MAX_WIFI_NETWORKS
    /\ \A i, j \in Slots :
          (i # j /\ savedNetworks[i].isValid /\ savedNetworks[j].isValid)
          => savedNetworks[i].ssid # savedNetworks[j].ssid
    /\ \A i \in Slots : savedNetworks[i].isValid => savedNetworks[i].priority >= 1

\* C27 as stated: for an entry that stays in the table, its priority never
\* decreases over any number of addOrUpdateNetwork updates and successful
\* connections, more than 255 of them included
C27_AsStated ==
    lastOp.op \in {"addOrUpdateNetwork", "connectToNetwork"} =>
        \A i, j \in Slots :
            (/\ pre.table[i].isValid
             /\ savedNetworks[j].isValid
             /\ savedNetworks[j].ssid = pre.table[i].ssid)
            => savedNetworks[j].priority >= pre.table[i].priority

-----------------------------------------------------------------------------
(* The reconnect logic of loop() while the link drops, saved networks come
   and go, and the configuration portal closes *)

MaxCycles == 3
MaxBackoffMillis == 150000

LoopTickMs == {10000, 20000}

\* two saved networks
BackoffTable ==
    TableAfter(EmptyTable, <<[call |-> "add", ssid |-> <<"a">>, now |-> 10],
                             [call |-> "add", ssid |-> <<"b">>, now |-> 20]>>)

\* which of the saved networks are in range during a reconnect cycle
ReachableSets == {{}, {<<"b">>}}

InitBackoff ==
    /\ DirInitAt(BootMicros, FALSE)
    /\ AdcInitBoot
    /\ WsInitBoot
    /\ RunInitBoot
    /\ elapsedMs = 0
    /\ ticks = 0
    /\ wrapped = FALSE
    /\ flips = 0
    /\ fedSamples = 0
    /\ frames = 0
    /\ acceptedSamples = [psum |-> 0, pcount |-> 0, nsum |-> 0, ncount |-> 0]
    /\ millisClock = reconnectInterval
    /\ \E table \in {EmptyTable, BackoffTable} : NetInitWith(table)
    /\ \E connected \in BOOLEAN : LoopInitWith(connected)
    /\ BtnInitBoot
    /\ IdInitBoot
    /\ ConnObsInit
    /\ pre = [op |-> "setup"]
    /\ lastOp = [op |-> "setup"]

\* one pass of loop()
BackoffLoop ==
    /\ cycles < MaxCycles
    /\ \E reachable \in ReachableSets : LoopConnectivityStep(reachable, TRUE)
    /\ pre' = [op |-> "loop", currentReconnectInterval |-> currentReconnectInterval,
               failedCycles |-> failedCycles, portalActive |-> portalActive,
               wifiConnected |-> wifiConnected, millisClock |-> millisClock,
               lastReconnectAttempt |-> lastReconnectAttempt]
    /\ UNCHANGED <<ctlVars, btnVars, idVars, netOps, pressLog, btnLoops>>

BackoffTick ==
    /\ cycles < MaxCycles
    /\ millisClock < MaxBackoffMillis
    /\ \E d \in LoopTickMs : millisClock' = millisClock + d
    /\ lastOp' = [op |-> "tick"]
    /\ UNCHANGED <<ctlVars, netVars, loopVars, btnVars, idVars, connObs, pre>>

\* the link is lost
WifiDrops ==
    /\ cycles < MaxCycles
    /\ wifiConnected
    /\ wifiConnected' = FALSE
    /\ lastOp' = [op |-> "linkLost"]
    /\ UNCHANGED <<portalActive, asyncServerStarted, lastReconnectAttempt,
                   currentReconnectInterval>>
    /\ UNCHANGED <<ctlVars, millisClock, netVars, btnVars, idVars, connObs, pre>>

\* wifiManager.process() closes the portal: its time-out has passed or the
\* user has left it
PortalCloses ==
    /\ cycles < MaxCycles
    /\ portalActive
    /\ portalActive' = FALSE
    /\ lastOp' = [op |-> "portalClosed"]
    /\ UNCHANGED <<wifiConnected, asyncServerStarted, lastReconnectAttempt,
                   currentReconnectInterval>>
    /\ UNCHANGED <<ctlVars, millisClock, netVars, btnVars, idVars, connObs, pre>>

NextBackoff == BackoffLoop \/ BackoffTick \/ WifiDrops \/ PortalCloses

SpecBackoff == InitBackoff /\ [][NextBackoff]_vars

\* C6 as stated: after k consecutive failed reconnect cycles the interval is
\* min(base * 2^k, cap); after a successful connection it is base.
C6_AsStated ==
    lastOp.op = "loop" =>
        /\ lastOp.cycle = "failed" =>
              currentReconnectInterval =
                 IF reconnectInterval * 2^failedCycles < maxReconnectInterval
                 THEN reconnectInterval * 2^failedCycles
                 ELSE maxReconnectInterval
        /\ lastOp.cycle = "connected" =>
              currentReconnectInterval = reconnectInterval

\* C14: a pass of loop() starts a reconnect cycle only if, when the pass
\* began, millis() was above 30000 and WiFi was not connected.
C14_NoEarlyReconnect ==
    (lastOp.op = "loop" /\ lastOp.cycle # "none") =>
        /\ pre.millisClock > 30000
        /\ ~pre.wifiConnected

\* a pass of loop() at millis() = 30000, with the link down, the portal
\* closed and the retry interval long past, has started no cycle
C14_Witness ==
    /\ lastOp.op = "loop"
    /\ lastOp.cycle = "none"
    /\ pre.millisClock = 30000
    /\ ~pre.wifiConnected
    /\ ~pre.portalActive
    /\ pre.millisClock - lastReconnectAttempt >= pre.currentReconnectInterval

\* C15: when a reconnect cycle has failed for every valid entry of the
\* table, an empty table included, the portal is active at the end of that
\* pass of loop(), the device has not restarted, and loop() can run again.
C15_PortalAfterFailure ==
    (lastOp.op = "loop" /\ lastOp.cycle = "failed") =>
        /\ portalActive
        /\ ~wifiConnected
        /\ ~restarted
        /\ cycles < MaxCycles => ENABLED BackoffLoop

\* a reconnect cycle has failed on the empty table, and the portal has come up
C15_Witness ==
    /\ lastOp.op = "loop"
    /\ lastOp.cycle = "failed"
    /\ \A i \in Slots : ~savedNetworks[i].isValid
    /\ ~pre.portalActive
    /\ portalActive

\* C32 as stated: the firmware's web server and the provisioning portal are
\* never active at the same time
C32_AsStated == ~(asyncServerStarted /\ portalActive)

-----------------------------------------------------------------------------
(* The test button pressed and released while loop() calls
   checkButtonMultiReset every LoopPeriodMs *)

MaxBtnLoops == 9
LoopPeriodMs == 30

InitBtn == InitNetWith(BackoffTable)

\* the press and release of the button, between two passes of loop()
ButtonPressed ==
    /\ btnLoops < MaxBtnLoops
    /\ ~restarted
    /\ buttonPin = HIGH
    /\ lastOp.op \in {"setup", "checkButtonMultiReset"}
    /\ buttonPin' = LOW
    /\ pressLog' = [pressLog EXCEPT !.lowSince = millisClock]
    /\ lastOp' = [op |-> "pressed"]
    /\ UNCHANGED <<buttonPressTimestamps, buttonPressIndex, lastButtonState,
                   lastDebounceTime, restarted>>
    /\ UNCHANGED <<ctlVars, millisClock, netVars, loopVars, idVars, pre>>
    /\ UNCHANGED <<netOps, failedCycles, cycles, btnLoops>>

ButtonReleased ==
    /\ btnLoops < MaxBtnLoops
    /\ ~restarted
    /\ buttonPin = LOW
    /\ lastOp.op = "checkButtonMultiReset"
    /\ buttonPin' = HIGH
    /\ pressLog' = [pressLog EXCEPT !.lowSince = -1]
    /\ lastOp' = [op |-> "released"]
    /\ UNCHANGED <<buttonPressTimestamps, buttonPressIndex, lastButtonState,
                   lastDebounceTime, restarted>>
    /\ UNCHANGED <<ctlVars, millisClock, netVars, loopVars, idVars, pre>>
    /\ UNCHANGED <<netOps, failedCycles, cycles, btnLoops>>

\* time goes by until the next pass of loop()
BtnTick ==
    /\ btnLoops < MaxBtnLoops
    /\ ~restarted
    /\ lastOp.op # "tick"
    /\ millisClock' = millisClock + LoopPeriodMs
    /\ lastOp' = [op |-> "tick"]
    /\ UNCHANGED <<ctlVars, netVars, loopVars, btnVars, idVars, connObs, pre>>

\* a pass of loop() calls checkButtonMultiReset(); a press that has now been
\* held past the debounce time is noted
CheckButtonMultiReset ==
    /\ lastOp.op = "tick"
    /\ CheckButtonMultiResetStep
    /\ LET held == /\ pressLog.lowSince >= 0
                   /\ millisClock - pressLog.lowSince > BUTTON_DEBOUNCE_MS
                   /\ (pressLog.starts = <<>>
                       \/ pressLog.starts[Len(pressLog.starts)] # pressLog.lowSince)
       IN  pressLog' = IF held
                       THEN [pressLog EXCEPT !.starts = Append(@, pressLog.lowSince)]
                       ELSE pressLog
    /\ btnLoops' = btnLoops + 1
    /\ lastOp' = [op |-> "checkButtonMultiReset"]
    /\ UNCHANGED <<ctlVars, millisClock, buttonPin, loopVars, pre>>
    /\ UNCHANGED <<netOps, failedCycles, cycles>>

NextBtn == ButtonPressed \/ ButtonReleased \/ BtnTick \/ CheckButtonMultiReset

SpecBtn == InitBtn /\ [][NextBtn]_vars

\* C10 as stated: once three presses, each held LOW for longer than the
\* debounce time, have occurred within the 5000 ms window, with
\* checkButtonMultiReset called on every pass of loop(), triggerWiFiReset has
\* been executed.
C10_AsStated ==
    LET n == Len(pressLog.starts)
    IN  (/\ n >= BUTTON_RESET_COUNT
         /\ millisClock - pressLog.starts[n - BUTTON_RESET_COUNT + 1]
               <= BUTTON_RESET_WINDOW_MS)
        => restarted

-----------------------------------------------------------------------------
(* The two ways to reset the WiFi setup: switching the device on three times
   in a row (setup() with detectMultiReset() true) and triggerWiFiReset()
   followed by the restart it ends with *)

MaxResetMillis == 45000

InitReset ==
    /\ DirInitAt(BootMicros, FALSE)
    /\ AdcInitBoot
    /\ WsInitBoot
    /\ RunInitBoot
    /\ elapsedMs = 0
    /\ ticks = 0
    /\ wrapped = FALSE
    /\ flips = 0
    /\ fedSamples = 0
    /\ frames = 0
    /\ acceptedSamples = [psum |-> 0, pcount |-> 0, nsum |-> 0, ncount |-> 0]
    /\ millisClock = BootMillis
    /\ \E table \in {EmptyTable, BackoffTable} : NetInitWith(table)
    /\ \E connected \in BOOLEAN : LoopInitWith(connected)
    /\ BtnInitBoot
    /\ \E name \in {ChipIdName, CustomName} :
          /\ deviceName = name
          /\ hostname = HostnameSafe(name)
          /\ deviceNameFile = IF name = ChipIdName THEN NoFile
                              ELSE {[deviceName |-> name,
                                     hostname |-> HostnameSafe(name)]}
    /\ ConnObsInit
    /\ pre = [op |-> "setup"]
    /\ lastOp = [op |-> "setup", reset |-> "none"]

ResetFrame ==
    /\ netOps' = 0
    /\ failedCycles' = 0
    /\ cycles' = 0
    /\ UNCHANGED <<ctlVars, pressLog, btnLoops>>

\* the device is switched off and on for the third time in a row
ResetPowerCycle ==
    /\ ~restarted
    /\ SetupConnectivityStep(TRUE, FALSE)
    /\ pre' = [op |-> "setup", deviceName |-> deviceName]
    /\ lastOp' = [op |-> "setup", reset |-> "powerCycle"]
    /\ ResetFrame

\* the button detector calls triggerWiFiReset(): three seconds of blinking,
\* then ESP.restart()
ResetTriggerWiFiReset ==
    /\ ~restarted
    /\ lastOp.op # "triggerWiFiReset"
    /\ TriggerWiFiResetStep
    /\ restarted' = TRUE
    /\ millisClock' = millisClock + 3000
    /\ pre' = [op |-> "triggerWiFiReset", deviceName |-> deviceName]
    /\ lastOp' = [op |-> "triggerWiFiReset", reset |-> "button"]
    /\ UNCHANGED <<ctlVars, loopVars, connObs>>
    /\ UNCHANGED <<buttonPin, buttonPressTimestamps, buttonPressIndex,
                   lastButtonState, lastDebounceTime>>

\* the boot after triggerWiFiReset(): resetSettings() has erased the
\* credentials WiFi.begin() would use
ResetRestart ==
    /\ restarted
    /\ SetupConnectivityStep(FALSE, FALSE)
    /\ pre' = [op |-> "setup", deviceName |-> deviceName]
    /\ lastOp' = [op |-> "setup", reset |-> "button"]
    /\ ResetFrame

\* a pass of loop() with no saved network in range
ResetLoop ==
    /\ ~restarted
    /\ LoopConnectivityStep({}, TRUE)
    /\ pre' = [op |-> "loop"]
    /\ UNCHANGED <<ctlVars, btnVars, idVars, netOps, pressLog, btnLoops>>

ResetTick ==
    /\ ~restarted
    /\ millisClock < MaxResetMillis
    /\ \E d \in LoopTickMs : millisClock' = millisClock + d
    /\ lastOp' = [op |-> "tick"]
    /\ UNCHANGED <<ctlVars, netVars, loopVars, btnVars, idVars, connObs, pre>>

NextReset == \/ ResetPowerCycle
             \/ ResetTriggerWiFiReset
             \/ ResetRestart
             \/ ResetLoop
             \/ ResetTick

SpecReset == InitReset /\ [][NextReset]_vars

\* C11 as stated: after the reset by the power-cycle path (setup() with
\* detectMultiReset() true) and after the reset by the button path
\* (triggerWiFiReset() and the restart that ends it) alike, the credential
\* table has no valid entry, /networks.json is gone, the stored device name
\* is gone and deviceName and hostname are the chip-id defaults; after the
\* power-cycle path the portal is active.
C11_AsStated ==
    (lastOp.op = "setup" /\ lastOp.reset \in {"powerCycle", "button"}) =>
        /\ \A i \in Slots : ~savedNetworks[i].isValid
        /\ networksFile = NoFile
        /\ deviceNameFile = NoFile
        /\ deviceName = ChipIdName
        /\ hostname = HostnameSafe(ChipIdName)
        /\ lastOp.reset = "powerCycle" => portalActive

-----------------------------------------------------------------------------
(* handleMeasurements in the loop task while the web server's task delivers
   WebSocket frames: initWebSocket() registers onEvent with the
   AsyncWebSocket, whose events are not delivered from loop(), and no lock,
   queue or critical section stands between the handler and the globals *)

\* what ((sum / count) * ADC_SLOPE) + ADC_INTERCEPT is when count is 0 and
\* sum is 0.0f
NotANumber == "nan"

\* if (positive_adc_count >= MAX_SAMPLES), line 1142
HmTestPositiveStep ==
    /\ loopPos' = IF positive_adc_count >= MAX_SAMPLES
                  THEN [at |-> "hmDividePositive", count |-> positive_adc_count]
                  ELSE [at |-> "hmRest"]
    /\ UNCHANGED <<adcVars, hasResetPeakCurrent, peakResetStartTime, adcPool,
                   bootVars>>

\* lines 1144-1146.  The globals are plain variables read by two tasks: the
\* build may divide by the count it tested (reload false) or read it again.
HmDividePositiveStep(reload) ==
    LET divisor == IF reload THEN positive_adc_count ELSE loopPos.count
    IN  /\ averagePositiveCurrent' =
              IF divisor = 0 THEN NotANumber
              ELSE AverageOf(positive_adc_sum, divisor)
        /\ positive_adc_sum' = 0
        /\ positive_adc_count' = 0
        /\ loopPos' = [at |-> "hmRest"]
        /\ lastOp' = [op |-> "hmDividePositive", divisor |-> divisor]
        /\ UNCHANGED <<calibration, latestRaw, latestCurrent, negative_adc_sum,
                       negative_adc_count, peakPositiveCurrent,
                       peakNegativeCurrent, averageNegativeCurrent, voltVars>>
        /\ UNCHANGED <<hasResetPeakCurrent, peakResetStartTime, adcPool, bootVars>>

\* lines 1149-1183: with the positive block behind it the rest of
\* handleMeasurements is the whole of it
HmRestStep ==
    /\ HandleMeasurementsStep
    /\ loopPos' = [at |-> "top"]
    /\ UNCHANGED <<calibration, latestRaw, latestCurrent, voltVars>>
    /\ UNCHANGED <<hasResetPeakCurrent, peakResetStartTime, adcPool, bootVars>>

InitRace ==
    /\ DirInitAt(BootMicros, TRUE)
    /\ WsInitBoot
    /\ RunInitBoot
    /\ \E earlier \in BOOLEAN, pcount \in PrefillCounts :
          MidRun(CodeCalibration, pcount, 0, earlier)
    /\ elapsedMs = 0
    /\ ticks = 0
    /\ wrapped = FALSE
    /\ flips = 0
    /\ fedSamples = 0
    /\ frames = 0
    /\ ConnInitBoot
    /\ pre = [op |-> "setup"]
    /\ lastOp = [op |-> "setup"]

\* the run is followed up to the first average that is not a number
DividedByZero == lastOp.op = "hmDividePositive" /\ lastOp.divisor = 0

RaceFrame ==
    /\ ~DividedByZero
    /\ UNCHANGED <<dirVars, wsVars, dirObs, adcObs, wsObs, connVars>>

RaceProcessAdcData ==
    /\ loopPos.at = "top"
    /\ lastOp.op # "process_adc_data"
    /\ ~DividedByZero
    /\ ProcessAdcData

RaceHmTestPositive ==
    /\ loopPos.at = "top"
    /\ lastOp.op = "process_adc_data"
    /\ HmTestPositiveStep
    /\ lastOp' = [op |-> "hmTestPositive"]
    /\ UNCHANGED pre
    /\ RaceFrame

RaceHmDividePositive ==
    /\ loopPos.at = "hmDividePositive"
    /\ \E reload \in BOOLEAN : HmDividePositiveStep(reload)
    /\ pre' = [op |-> "hmDividePositive", tested |-> loopPos.count]
    /\ RaceFrame

RaceHmRest ==
    /\ loopPos.at = "hmRest"
    /\ HmRestStep
    /\ lastOp' = [op |-> "hmRest"]
    /\ UNCHANGED pre
    /\ RaceFrame

\* a "resetPeakCurrent" frame arrives, wherever the loop task stands
RaceReset ==
    /\ frames < MaxFrames
    /\ ~DividedByZero
    /\ WebSocketMessage(MsgResetPeak, TRUE, TRUE)
    /\ frames' = frames + 1

NextRace == \/ RaceProcessAdcData
            \/ RaceHmTestPositive
            \/ RaceHmDividePositive
            \/ RaceHmRest
            \/ RaceReset

SpecRace == InitRace /\ [][NextRace]_vars

\* C12 as stated: a resetPeakValues() of the WebSocket handler never takes
\* effect between handleMeasurements' test of a sample count against
\* MAX_SAMPLES and the division by that count, so that handleMeasurements
\* never computes an average with a count of zero.
C12_AsStated ==
    lastOp.op = "hmDividePositive" => lastOp.divisor > 0

\* C37 as stated: in every reachable state the published positive peak and
\* average are numbers >= 0 and the negative peak and average are numbers
\* <= 0; an average that is not a number is neither
C37_AsStated ==
    /\ ~DividedByZero
    /\ peakPositiveCurrent >= 0
    /\ averagePositiveCurrent >= 0
    /\ peakNegativeCurrent <= 0
    /\ averageNegativeCurrent <= 0

-----------------------------------------------------------------------------
(* Whole iterations of loop() of a running device whose link may be down:
   the reconnect logic, then handleDirectionSwitching, while micros() and
   millis() advance together *)

MaxStallMillis == 30200

\* the time an iteration of loop() takes when nothing in it waits
OrdinaryLoopMs == {10, 40}

\* delay() and the wait loops of connectToNetwork() keep the processor:
\* micros() advances with millis()
BothClocksAdvance(d) ==
    /\ millisClock' = millisClock + d
    /\ microsClock' = U32Add(microsClock, d * 1000)
    /\ elapsedMs' = elapsedMs + d
    /\ ticks' = ticks + 1
    /\ wrapped' = (wrapped \/ U32Add(microsClock, d * 1000)[1] < microsClock[1])

InitStall ==
    /\ \E dir \in BOOLEAN : DirInitAt(BootMicros, dir)
    /\ AdcInitBoot
    /\ WsInitBoot
    /\ RunInitBoot
    /\ elapsedMs = 0
    /\ ticks = 0
    /\ wrapped = FALSE
    /\ flips = 0
    /\ fedSamples = 0
    /\ frames = 0
    /\ acceptedSamples = [psum |-> 0, pcount |-> 0, nsum |-> 0, ncount |-> 0]
    /\ millisClock = StabilizationMs
    /\ NetInitWith(BackoffTable)
    /\ \E connected \in BOOLEAN : LoopInitWith(connected)
    /\ BtnInitBoot
    /\ IdInitBoot
    /\ ConnObsInit
    /\ pre = [op |-> "setup"]
    /\ lastOp = [op |-> "setup"]

\* the rest of an iteration goes by
StallTick ==
    /\ lastOp.op \in {"setup", "handleDirectionSwitching"}
    /\ millisClock < MaxStallMillis
    /\ \E d \in OrdinaryLoopMs : BothClocksAdvance(d)
    /\ lastOp' = [op |-> "tick"]
    /\ UNCHANGED <<reversestartTime, outputDirection, directionPin,
                   ForwardTimeInt, ReverseTimeInt, flips>>
    /\ UNCHANGED <<adcVars, wsVars, runVars, adcObs, wsObs, pre>>
    /\ UNCHANGED <<netVars, loopVars, btnVars, idVars, connObs>>

\* loop() lines 1232-1297, with the time connectToSavedNetworks() takes
StallLoopConnectivity ==
    /\ lastOp.op \in {"tick", "linkLost"}
    /\ \E reachable \in ReachableSets : LoopConnectivityStep(reachable, TRUE)
    /\ microsClock' = U32Add(microsClock, (millisClock' - millisClock) * 1000)
    /\ elapsedMs' = elapsedMs + (millisClock' - millisClock)
    /\ pre' = [op |-> "loop", millisClock |-> millisClock]
    /\ UNCHANGED <<reversestartTime, outputDirection, directionPin,
                   ForwardTimeInt, ReverseTimeInt, ticks, wrapped, flips>>
    /\ UNCHANGED <<adcVars, wsVars, runVars, adcObs, wsObs>>
    /\ UNCHANGED <<btnVars, idVars, netOps, pressLog, btnLoops>>

\* loop() line 1331
StallDirection ==
    /\ lastOp.op = "loop"
    /\ HandleDirectionSwitching

StallLinkLost ==
    /\ lastOp.op = "tick"
    /\ WifiDrops

NextStall == StallTick \/ StallLoopConnectivity \/ StallDirection \/ StallLinkLost

SpecStall == InitStall /\ [][NextStall]_vars

\* C13 as stated: while the device runs, whatever the network does, the
\* output is never held in one polarity for longer than that polarity's
\* dwell time plus one ordinary iteration of loop().
C13_AsStated ==
    isRunning =>
        \A longest \in OrdinaryLoopMs :
            (\A d \in OrdinaryLoopMs : d <= longest) =>
                elapsedMs <= ActiveDwell + longest

-----------------------------------------------------------------------------
\* C18 as stated: from one peak reset to the next, no call of
\* handleMeasurements lowers peakPositiveCurrent or raises
\* peakNegativeCurrent.
C18_AsStated ==
    lastOp.op = "handleMeasurements" =>
        /\ peakPositiveCurrent >= pre.peakPositiveCurrent
        /\ peakNegativeCurrent <= pre.peakNegativeCurrent

\* C29 as stated: when handleMeasurements stores a new positive peak whose
\* magnitude exceeds 1.1 times the magnitude of the negative peak, the
\* positive peak is clamped to the negated negative peak
C29_AsStated ==
    (/\ lastOp.op = "handleMeasurements"
     /\ pre.direction
     /\ pre.latestCurrent > pre.peakPositiveCurrent
     /\ pre.peakNegativeCurrent < 0
     /\ 10 * Abs(pre.latestCurrent) > 11 * Abs(pre.peakNegativeCurrent))
    => peakPositiveCurrent = -peakNegativeCurrent

\* C28 as stated: the polarity check of an iteration of loop() compares
\* against the same value of 'now' as the reconnect-interval check of that
\* iteration
C28_AsStated ==
    lastOp.op = "handleDirectionSwitching" /\ pre.op = "loop"
        => millisClock = pre.millisClock

-----------------------------------------------------------------------------
(* The ADC driver converts continuously into its pool while loop() reads the
   pool with process_adc_data and flips the polarity *)

MaxConversions == 2
MaxSamplerTicks == 2

\* adc_continuous_start(): the driver stores a conversion result, taken while
\* the output has the polarity it has now
AdcConversionStep(data) ==
    adcPool' = Append(adcPool, [data |-> data, match |-> TRUE,
                                takenIn |-> outputDirection])

\* adc_continuous_read(): the oldest results of the pool, as many as the
\* buffer handed over holds
ReadFromPool == SubSeq(adcPool, 1, IF Len(adcPool) < SamplesPerRead
                                   THEN Len(adcPool) ELSE SamplesPerRead)

InitSampler ==
    /\ \E dir \in BOOLEAN : DirInitAt(BootMicros, dir)
    /\ AdcInitBoot
    /\ WsInitBoot
    /\ RunInitBoot
    /\ ObsInit

SamplerConversion ==
    /\ fedSamples + Len(adcPool) < MaxConversions
    /\ \E data \in RawCodes(calibration) : AdcConversionStep(data)
    /\ lastOp' = [op |-> "conversion"]
    /\ UNCHANGED <<hasResetPeakCurrent, peakResetStartTime, loopPos, bootVars>>
    /\ UNCHANGED <<dirVars, adcVars, wsVars, dirObs, adcObs, wsObs, connVars, pre>>

SamplerProcessAdcData ==
    /\ lastOp.op # "process_adc_data"
    /\ ProcessAdcDataStep(ReadFromPool)
    /\ adcPool' = SubSeq(adcPool, Len(ReadFromPool) + 1, Len(adcPool))
    /\ lastOp' = [op |-> "process_adc_data", batch |-> ReadFromPool]
    /\ pre' = [op |-> "process_adc_data", direction |-> outputDirection,
               acc |-> Accumulators]
    /\ acceptedSamples' = Tally(acceptedSamples, ReadFromPool, outputDirection)
    /\ fedSamples' = fedSamples + Len(ReadFromPool)
    /\ UNCHANGED <<calibration, curVars, voltVars>>
    /\ UNCHANGED <<hasResetPeakCurrent, peakResetStartTime, loopPos, bootVars>>
    /\ UNCHANGED <<dirVars, wsVars, dirObs, wsObs, connVars>>

SamplerTick ==
    /\ ticks < MaxSamplerTicks
    /\ AdvanceMicros(ToInt(DefaultFValue2))
    /\ lastOp' = [op |-> "tick"]
    /\ UNCHANGED <<reversestartTime, outputDirection, directionPin,
                   ForwardTimeInt, ReverseTimeInt>>
    /\ UNCHANGED <<adcVars, wsVars, runVars, adcObs, wsObs, connVars, pre>>

SamplerDirection ==
    /\ lastOp.op # "handleDirectionSwitching"
    /\ HandleDirectionSwitching

NextSampler == \/ SamplerConversion
               \/ SamplerProcessAdcData
               \/ SamplerTick
               \/ SamplerDirection

SpecSampler == InitSampler /\ [][NextSampler]_vars

\* C19 as stated: process_adc_data classifies every sample it reads with the
\* polarity the output had when the sample was taken.
C19_AsStated ==
    lastOp.op = "process_adc_data" =>
        \A k \in 1 .. Len(lastOp.batch) :
            lastOp.batch[k].takenIn = pre.direction

\* C30 as stated: process_adc_data drains the ADC sampler: every conversion
\* result pending when it is called is consumed in that pass and none is left
\* behind
C30_AsStated ==
    lastOp.op = "process_adc_data" => adcPool = <<>>

-----------------------------------------------------------------------------
(* The automatic peak reset of loop(), while the clock advances and the user
   starts and stops the device *)

MaxPeakMillis == 100000

PEAK_RESET_DELAY_MS == 60000

PeakTickMs == {20000, 30000}

\* !hasResetPeakCurrent && (millis() - peakResetStartTime) >= 60000, at
\* millis() = now
AutoResetDue_Repeating(now) == now - peakResetStartTime >= PEAK_RESET_DELAY_MS
AutoResetDue(now) ==
    /\ ~hasResetPeakCurrent
    /\ now - peakResetStartTime >= PEAK_RESET_DELAY_MS

\* loop() lines 1312-1342: the automatic reset in the branch of the running
\* device
AutoPeakResetStep ==
    IF isRunning /\ AutoResetDue(millisClock)
    THEN /\ hasResetPeakCurrent' = TRUE
         /\ ResetPeakValuesTo(FValue1)
         /\ lastOp' = [op |-> "autoPeakReset", fired |-> TRUE]
    ELSE /\ UNCHANGED <<hasResetPeakCurrent, accVars, curVars, voltVars>>
         /\ lastOp' = [op |-> "autoPeakReset", fired |-> FALSE]

InitPeak ==
    /\ DirInitAt(BootMicros, FALSE)
    /\ WsInitBoot
    /\ RunInitBoot
    /\ \E earlier \in BOOLEAN, pcount \in PrefillCounts :
          MidRun(CodeCalibration, pcount, 0, earlier)
    /\ elapsedMs = 0
    /\ ticks = 0
    /\ wrapped = FALSE
    /\ flips = 0
    /\ fedSamples = 0
    /\ frames = 0
    /\ ConnInitBoot
    /\ pre = [op |-> "setup"]
    /\ lastOp = [op |-> "setup"]

PeakTick ==
    /\ millisClock < MaxPeakMillis
    /\ \E d \in PeakTickMs : millisClock' = millisClock + d
    /\ lastOp' = [op |-> "tick"]
    /\ UNCHANGED <<ctlVars, netVars, loopVars, btnVars, idVars, connObs, pre>>

PeakLoop ==
    /\ AutoPeakResetStep
    /\ pre' = [op |-> "autoPeakReset", isRunning |-> isRunning,
               hasResetPeakCurrent |-> hasResetPeakCurrent,
               sinceStart |-> millisClock - peakResetStartTime]
    /\ UNCHANGED <<calibration, latestRaw, latestCurrent>>
    /\ UNCHANGED <<peakResetStartTime, adcPool, loopPos, bootVars>>
    /\ UNCHANGED <<dirVars, wsVars, dirObs, adcObs, wsObs, connVars>>

\* the user stops or starts the device
PeakToggle ==
    /\ lastOp.op # "ws"
    /\ WebSocketMessage(MsgToggle, TRUE, TRUE)
    /\ UNCHANGED frames

\* the other commands: accepted set commands, resetPeakCurrent, getValues
PeakCommands == {<<"1", "F", "7", ".", "5">>, <<"2", "F", "5", "0">>,
                 <<"2", "R", "5", "0">>, MsgResetPeak, MsgGetValues}

PeakCommand ==
    /\ lastOp.op # "ws"
    /\ \E message \in PeakCommands : WebSocketMessage(message, TRUE, TRUE)
    /\ UNCHANGED frames

NextPeak == PeakTick \/ PeakLoop \/ PeakToggle \/ PeakCommand

SpecPeak == InitPeak /\ [][NextPeak]_vars

\* C17 as stated: the automatic peak reset never fires before 60000 ms have
\* passed since peakResetStartTime, never fires a second time, and has fired
\* once loop() has run with 60000 ms or more passed.
C17_AsStated ==
    lastOp.op = "autoPeakReset" =>
        /\ lastOp.fired => (pre.sinceStart >= 60000 /\ ~pre.hasResetPeakCurrent)
        /\ pre.sinceStart >= 60000 => hasResetPeakCurrent

\* C17: the automatic peak reset fires at most once per boot: never before
\* 60000 ms have passed since peakResetStartTime and never after it has fired
\* (hasResetPeakCurrent stays set, whatever the user toggles); it fires in
\* the first pass of loop() with 60000 ms or more passed in which the device
\* is running, and in no pass in which the device is stopped.
C17_OneShotWhileRunning ==
    /\ lastOp.op = "autoPeakReset" =>
          /\ lastOp.fired <=> /\ pre.sinceStart >= 60000
                              /\ ~pre.hasResetPeakCurrent
                              /\ pre.isRunning
          /\ lastOp.fired => /\ hasResetPeakCurrent
                             /\ peakPositiveCurrent = 0
                             /\ peakNegativeCurrent = 0
                             /\ positive_adc_count = 0
          /\ pre.hasResetPeakCurrent => hasResetPeakCurrent
    /\ lastOp.op # "autoPeakReset" =>
          (hasResetPeakCurrent => millisClock - peakResetStartTime >= 60000)

\* the reset has fired in a pass of loop() later than 60000 ms after
\* peakResetStartTime
C17_Witness ==
    /\ lastOp.op = "autoPeakReset"
    /\ lastOp.fired
    /\ pre.sinceStart > 60000
    /\ hasResetPeakCurrent

\* both current peaks, both current averages and both accumulators are zero
CurrentsAllZero ==
    /\ peakPositiveCurrent = 0 /\ peakNegativeCurrent = 0
    /\ averagePositiveCurrent = 0 /\ averageNegativeCurrent = 0
    /\ positive_adc_sum = 0 /\ positive_adc_count = 0
    /\ negative_adc_sum = 0 /\ negative_adc_count = 0

\* C25: each accepted control-parameter change (1F, 2F, 2R), each
\* resetPeakCurrent command and the one-shot automatic reset sets both current
\* peaks, both current averages and both accumulators to zero; the toggle and
\* getValues commands leave all of them unchanged
C25_ResetOrKeep ==
    /\ lastOp.op = "ws" /\ lastOp.branch \in {"1F", "2F", "2R", "reset"}
          => CurrentsAllZero
    /\ lastOp.op = "autoPeakReset" /\ lastOp.fired => CurrentsAllZero
    /\ lastOp.op = "ws" /\ lastOp.branch \in {"toggle", "getValues"}
          => /\ accVars = pre.meas[1]
             /\ curVars = pre.meas[2]

\* an accepted forward-time command has cleared a peak, an average and an
\* accumulator that were not zero
C25_Witness ==
    /\ lastOp.op = "ws"
    /\ lastOp.branch = "2F"
    /\ pre.meas[1][2] > 0
    /\ pre.meas[2][1] > 0
    /\ pre.meas[2][3] > 0
    /\ CurrentsAllZero

-----------------------------------------------------------------------------
(* sortNetworksByPriority() on tables of every shape *)

\* the priorities and connection times the entries of the tables carry
SortPriorities == {1, 2}
SortStamps == {1000, 2000}

\* what slot i can hold: a network in use, the slot as
\* initMultiNetworkStorage() left it, or the slot of a removed network, which
\* keeps its priority and lastConnected
SortEntries(i) ==
    { [ssid |-> TableSsids[i + 1], password |-> <<"p">>, priority |-> p,
       lastConnected |-> t, isValid |-> TRUE] :
          p \in SortPriorities, t \in SortStamps }
    \cup { EmptyCredential,
           [EmptyCredential EXCEPT !.priority = 1, !.lastConnected = 1000] }

SortTables ==
    { [i \in Slots |-> <<e0, e1, e2, e3, e4>>[i + 1]] :
          e0 \in SortEntries(0), e1 \in SortEntries(1), e2 \in SortEntries(2),
          e3 \in SortEntries(3), e4 \in SortEntries(4) }

InitSort == \E table \in SortTables : InitNetWith(table)

SortNetworks ==
    /\ savedNetworks' = SortNetworksByPriority(savedNetworks)
    /\ pre' = [op |-> "sortNetworksByPriority", table |-> savedNetworks]
    /\ lastOp' = [op |-> "sortNetworksByPriority"]
    /\ UNCHANGED <<networksFile, millisClock, netOps>>
    /\ NetFrame

NextSort == SortNetworks

SpecSort == InitSort /\ [][NextSort]_vars

\* two entries neither of which the stated order puts first
ComparesEqual(a, b) ==
    IF a.isValid /\ b.isValid
    THEN a.priority = b.priority /\ a.lastConnected = b.lastConnected
    ELSE ~a.isValid /\ ~b.isValid

\* C21: after sortNetworksByPriority the slots hold a permutation of the
\* entries held before, every valid entry precedes every invalid one, the valid
\* entries are in non-increasing priority order and, among equal priorities,
\* in non-increasing lastConnected order, and entries that compare equal keep
\* their relative order
C21_SortContract ==
    lastOp.op = "sortNetworksByPriority" =>
        LET before == pre.table
            after == savedNetworks
        IN  /\ \E p \in Permutations(Slots) :
                  /\ \A i \in Slots : after[p[i]] = before[i]
                  /\ \A i, j \in Slots :
                        i < j /\ ComparesEqual(before[i], before[j])
                            => p[i] < p[j]
            /\ \A i, j \in Slots :
                  i < j /\ after[j].isValid => after[i].isValid
            /\ \A i, j \in Slots :
                  i < j /\ after[i].isValid /\ after[j].isValid =>
                      /\ after[i].priority >= after[j].priority
                      /\ after[i].priority = after[j].priority
                            => after[i].lastConnected >= after[j].lastConnected

\* a sort that moved a valid entry past an invalid one, reordered by priority
\* and by lastConnected, and met two different entries that compare equal
C21_Witness ==
    /\ lastOp.op = "sortNetworksByPriority"
    /\ savedNetworks # pre.table
    /\ ~pre.table[0].isValid /\ pre.table[1].isValid
    /\ \E i, j \in Slots :
          /\ i < j
          /\ pre.table[i].isValid /\ pre.table[j].isValid
          /\ pre.table[i].priority < pre.table[j].priority
    /\ \E i, j \in Slots :
          /\ i < j
          /\ pre.table[i].isValid /\ pre.table[j].isValid
          /\ pre.table[i].priority = pre.table[j].priority
          /\ pre.table[i].lastConnected < pre.table[j].lastConnected
    /\ \E i, j \in Slots :
          /\ i < j
          /\ pre.table[i] # pre.table[j]
          /\ ComparesEqual(pre.table[i], pre.table[j])

-----------------------------------------------------------------------------
(* Power-on, setup() stage by stage, the first passes of loop(), commands and
   power cycles *)

MaxBoots == 2
MaxBootFrames == 2
MaxBootLoops == 2
MaxHaltedMillis == 3000

\* a pin that pinMode() has not yet made an output
Undriven == 2

\* width of uint16_t ForwardTimeInt, ReverseTimeInt
TimeModulus == 65536

\* the frames of the runs: accepted and rejected set commands, and toggle
BootFrames == {<<"1", "F", "7", ".", "5">>, <<"1", "F", "3", "0">>,
               <<"2", "F", "5", "0">>, <<"2", "R", "6", "0", "0", "0", "0">>,
               <<"2", "R", "5">>, MsgToggle}

\* reset of the chip and the first lines of setup(): the globals hold their
\* static initialisers, the identifiers are the chip-id names, the files are
\* as they were
PowerOnStep ==
    /\ isRunning' = TRUE
    /\ FValue1' = <<>>
    /\ FValue2' = <<>>
    /\ RValue2' = <<>>
    /\ ForwardTimeInt' = 0
    /\ ReverseTimeInt' = 0
    /\ outputDirection' = FALSE
    /\ microsClock' = <<0, 0>>
    /\ reversestartTime' = <<0, 0>>
    /\ directionPin' = Undriven
    /\ enablePin' = Undriven
    /\ adc_buffer' = FALSE
    /\ lastNotifyTime' = 0
    /\ latestRaw' = 0
    /\ latestCurrent' = 0
    /\ ResetPeakValuesTo(<<>>)
    /\ hasResetPeakCurrent' = FALSE
    /\ peakResetStartTime' = 0
    /\ adcPool' = <<>>
    /\ loopPos' = [at |-> "initHardware"]
    /\ millisClock' = 0
    /\ savedNetworks' = EmptyTable
    /\ wifiConnected' = FALSE
    /\ portalActive' = FALSE
    /\ asyncServerStarted' = FALSE
    /\ lastReconnectAttempt' = 0
    /\ currentReconnectInterval' = reconnectInterval
    /\ buttonPressTimestamps' = NoPresses
    /\ buttonPressIndex' = 0
    /\ lastButtonState' = HIGH
    /\ lastDebounceTime' = 0
    /\ restarted' = FALSE
    /\ deviceName' = ChipIdName
    /\ hostname' = ChipIdName
    /\ UNCHANGED <<settingsFile, networksFile, deviceNameFile, calibration,
                   buttonPin>>

\* void initHardware(): the pins become outputs and are written LOW
InitHardwareStep ==
    /\ enablePin' = LOW
    /\ directionPin' = LOW

\* void initADC() that goes on whether or not malloc() gave a buffer
InitADCStep_RunBlind(mallocOk) ==
    /\ adc_buffer' = mallocOk
    /\ loopPos' = [at |-> "setup"]

\* void initADC(): without a buffer, while (1) { delay(1000); }
InitADCStep(mallocOk) ==
    /\ adc_buffer' = mallocOk
    /\ loopPos' = IF mallocOk THEN [at |-> "setup"] ELSE [at |-> "halted"]

\* loadSettings() that takes the defaults whatever the file holds
LoadSettingsStep_DefaultsOnly(flashOk) ==
    /\ FValue1' = DefaultFValue1
    /\ FValue2' = DefaultFValue2
    /\ RValue2' = DefaultRValue2
    /\ ForwardTimeInt' = ToInt(FValue2') % TimeModulus
    /\ ReverseTimeInt' = ToInt(RValue2') % TimeModulus
    /\ UNCHANGED settingsFile

\* bool loadSettings(), and setDefaultSettings() when it returns false: without
\* /settings.json the defaults are taken and saved, otherwise the three
\* strings are read from the document
LoadSettingsStep(flashOk) ==
    /\ IF settingsFile = NoFile
       THEN /\ FValue1' = DefaultFValue1
            /\ FValue2' = DefaultFValue2
            /\ RValue2' = DefaultRValue2
            /\ SaveSettingsTo(FValue1', FValue2', RValue2', flashOk)
       ELSE LET doc == CHOOSE d \in settingsFile : TRUE
            IN  /\ FValue1' = doc.FValue1
                /\ FValue2' = doc.FValue2
                /\ RValue2' = doc.RValue2
                /\ UNCHANGED settingsFile
    /\ ForwardTimeInt' = ToInt(FValue2') % TimeModulus
    /\ ReverseTimeInt' = ToInt(RValue2') % TimeModulus

\* loop(), lines 1311-1323: the enable output follows isRunning
LoopDeviceStateStep_AlwaysOn ==
    enablePin' = HIGH
LoopDeviceStateStep ==
    enablePin' = IF isRunning THEN HIGH ELSE LOW

\* power is applied to a device whose file system holds no settings
InitBoot ==
    /\ isRunning = TRUE
    /\ FValue1 = <<>>
    /\ FValue2 = <<>>
    /\ RValue2 = <<>>
    /\ ForwardTimeInt = 0
    /\ ReverseTimeInt = 0
    /\ settingsFile = NoFile
    /\ outputDirection = FALSE
    /\ microsClock = <<0, 0>>
    /\ reversestartTime = <<0, 0>>
    /\ directionPin = Undriven
    /\ enablePin = Undriven
    /\ adc_buffer = FALSE
    /\ calibration = CodeCalibration
    /\ latestRaw = 0
    /\ latestCurrent = 0
    /\ positive_adc_sum = 0
    /\ positive_adc_count = 0
    /\ negative_adc_sum = 0
    /\ negative_adc_count = 0
    /\ peakPositiveCurrent = 0
    /\ peakNegativeCurrent = 0
    /\ averagePositiveCurrent = 0
    /\ averageNegativeCurrent = 0
    /\ peakPositiveVoltage = 0
    /\ peakNegativeVoltage = 0
    /\ averagePositiveVoltage = 0
    /\ averageNegativeVoltage = 0
    /\ hasResetPeakCurrent = FALSE
    /\ peakResetStartTime = 0
    /\ adcPool = <<>>
    /\ loopPos = [at |-> "initHardware"]
    /\ lastAccepted = [voltage |-> ToFloat(DefaultFValue1),
                       forward |-> ToInt(DefaultFValue2),
                       reverse |-> ToInt(DefaultRValue2)]
    /\ lastNotifyTime = 0
    /\ elapsedMs = 0
    /\ ticks = 0
    /\ wrapped = FALSE
    /\ flips = 0
    /\ fedSamples = 0
    /\ frames = 0
    /\ acceptedSamples = [psum |-> 0, pcount |-> 0, nsum |-> 0, ncount |-> 0]
    /\ millisClock = 0
    /\ NetInitWith(EmptyTable)
    /\ LoopInitWith(FALSE)
    /\ BtnInitBoot
    /\ IdInitBoot
    /\ ConnObsInit
    /\ pre = [op |-> "powerOn"]
    /\ lastOp = [op |-> "powerOn"]

BootObsFrame == UNCHANGED <<dirObs, adcObs, netOps, failedCycles, pressLog,
                            btnLoops>>

BootInitHardware ==
    /\ loopPos.at = "initHardware"
    /\ InitHardwareStep
    /\ loopPos' = [at |-> "initADC"]
    /\ pre' = [op |-> "initHardware", loops |-> 0]
    /\ lastOp' = [op |-> "initHardware"]
    /\ UNCHANGED <<microsClock, reversestartTime, outputDirection,
                   ForwardTimeInt, ReverseTimeInt>>
    /\ UNCHANGED <<adcVars, wsVars, hasResetPeakCurrent, peakResetStartTime,
                   adcPool, adc_buffer, lastAccepted, lastNotifyTime>>
    /\ UNCHANGED <<millisClock, netVars, loopVars, btnVars, idVars, cycles,
                   frames>>
    /\ BootObsFrame

BootInitADC ==
    /\ loopPos.at = "initADC"
    /\ \E mallocOk \in BOOLEAN : InitADCStep(mallocOk)
    /\ lastOp' = [op |-> "initADC"]
    /\ UNCHANGED <<dirVars, adcVars, wsVars, hasResetPeakCurrent,
                   peakResetStartTime, adcPool, enablePin, lastAccepted,
                   lastNotifyTime>>
    /\ UNCHANGED <<millisClock, netVars, loopVars, btnVars, idVars, cycles,
                   frames, pre>>
    /\ BootObsFrame

\* one turn of while (1) { delay(1000); }
BootHalted ==
    /\ loopPos.at = "halted"
    /\ millisClock < MaxHaltedMillis
    /\ millisClock' = millisClock + 1000
    /\ lastOp' = [op |-> "delay"]
    /\ UNCHANGED <<ctlVars, netVars, loopVars, btnVars, idVars, connObs, pre>>

\* the rest of setup(), from initFS() to its last line
BootSetup ==
    /\ loopPos.at = "setup"
    /\ LoadSettingsStep(TRUE)
    /\ \E nvsConnects \in BOOLEAN : SetupConnectivityStep(FALSE, nvsConnects)
    /\ reversestartTime' = microsClock
    /\ peakResetStartTime' = millisClock'
    /\ ResetPeakValuesTo(FValue1')
    /\ loopPos' = [at |-> "top"]
    /\ pre' = [op |-> "setup", loops |-> 0, settingsFile |-> settingsFile]
    /\ lastOp' = [op |-> "setup"]
    /\ UNCHANGED <<microsClock, outputDirection, directionPin, isRunning,
                   calibration, latestRaw, latestCurrent, hasResetPeakCurrent,
                   adcPool, bootVars, cycles, frames>>
    /\ BootObsFrame

\* a pass of loop() right after setup(): no sample is pending and no dwell
\* has expired
BootLoop ==
    /\ loopPos.at = "top"
    /\ pre.loops < MaxBootLoops
    /\ LoopDeviceStateStep
    /\ pre' = [pre EXCEPT !.loops = @ + 1]
    /\ lastOp' = [op |-> "loop"]
    /\ UNCHANGED <<dirVars, adcVars, wsVars, hasResetPeakCurrent,
                   peakResetStartTime, adcPool, loopPos, adc_buffer,
                   lastAccepted, lastNotifyTime>>
    /\ UNCHANGED <<connVars, frames>>
    /\ BootObsFrame

\* a command frame once loop() runs
BootFrame ==
    /\ loopPos.at = "top"
    /\ frames < MaxBootFrames
    /\ frames' = frames + 1
    /\ \E message \in BootFrames : HandleWebSocketMessageStep(message, TRUE, TRUE)
    /\ lastAccepted' = IF lastOp'.saved
                       THEN [voltage |-> ToFloat(FValue1'),
                             forward |-> ForwardTimeInt',
                             reverse |-> ReverseTimeInt']
                       ELSE lastAccepted
    /\ UNCHANGED <<microsClock, reversestartTime, outputDirection, directionPin>>
    /\ UNCHANGED <<hasResetPeakCurrent, peakResetStartTime, adcPool, loopPos,
                   enablePin, adc_buffer, lastNotifyTime>>
    /\ UNCHANGED <<connVars, pre>>
    /\ UNCHANGED <<dirObs, adcObs>>

\* the supply is switched off and on
BootPowerCycle ==
    /\ cycles < MaxBoots
    /\ lastOp.op # "powerOn"
    /\ cycles' = cycles + 1
    /\ PowerOnStep
    /\ pre' = [op |-> "powerOn"]
    /\ lastOp' = [op |-> "powerOn"]
    /\ UNCHANGED <<lastAccepted, frames>>
    /\ BootObsFrame

NextBoot == \/ BootInitHardware
            \/ BootInitADC
            \/ BootHalted
            \/ BootSetup
            \/ BootLoop
            \/ BootFrame
            \/ BootPowerCycle

SpecBoot == InitBoot /\ [][NextBoot]_vars

\* C23: when the ADC working buffer cannot be allocated in initADC the device
\* goes no further: setup() is never completed, loop() is never entered and
\* the H-bridge enable output stays LOW; and in every boot the enable output
\* is never HIGH before the first pass of loop()
C23_RefusesToRunBlind ==
    /\ loopPos.at \in {"setup", "top"} => adc_buffer
    /\ loopPos.at = "halted" => ~adc_buffer /\ enablePin = LOW
    /\ enablePin = HIGH => loopPos.at = "top" /\ pre.loops >= 1

\* the device halted in initADC for more than a second, in a boot that follows one
\* in which loop() ran
C23_Witness ==
    /\ loopPos.at = "halted"
    /\ ~adc_buffer
    /\ millisClock > 1000
    /\ enablePin = LOW
    /\ cycles >= 1

\* the target voltage and the dwell times are within their ranges
SettingsInRange ==
    /\ ToFloat(FValue1) >= 0 /\ ToFloat(FValue1) <= 24000
    /\ ForwardTimeInt >= 10 /\ ForwardTimeInt <= 60000
    /\ ReverseTimeInt >= 10 /\ ReverseTimeInt <= 60000

\* what setup() has loaded is what the last accepted commands set, or the
\* defaults when none was accepted
LoadedLastAccepted ==
    lastOp.op = "setup" =>
        /\ ToFloat(FValue1) = lastAccepted.voltage
        /\ ForwardTimeInt = lastAccepted.forward
        /\ ReverseTimeInt = lastAccepted.reverse

\* C24 as stated: over any sequence of commands and reboots from an empty
\* settings store, in every reachable state the target voltage is within
\* [0, 24] and ForwardTimeInt and ReverseTimeInt are within [10, 60000], and
\* after a reboot the loaded values equal the most recently accepted ones, or
\* the defaults 14 V / 100 ms / 100 ms
C24_AsStated == SettingsInRange /\ LoadedLastAccepted

\* C24 amended: the same, in every state from the completion of setup() on;
\* between reset and loadSettings() the dwell times hold 0
C24_InRangeOnceSetUp ==
    loopPos.at = "top" => SettingsInRange /\ LoadedLastAccepted

\* a boot that has loaded 7.5 V and 50 ms set by commands before the power
\* cycle, the reverse time still being the default
C24_Witness ==
    /\ lastOp.op = "setup"
    /\ loopPos.at = "top"
    /\ cycles >= 1
    /\ lastAccepted = [voltage |-> 7500, forward |-> 50, reverse |-> 100]
    /\ ToFloat(FValue1) = 7500
    /\ ForwardTimeInt = 50
    /\ ReverseTimeInt = 100

-----------------------------------------------------------------------------
(* connectToSavedNetworks() on tables of up to four networks, of which any
   subset is in range *)

\* slots 0 to 2 as in the tables of the sort, slot 3 free or holding a network
\* whose priority has reached the top of its field, slot 4 free
ConnectTables ==
    { [i \in Slots |-> <<e0, e1, e2, e3, EmptyCredential>>[i + 1]] :
          e0 \in SortEntries(0), e1 \in SortEntries(1), e2 \in SortEntries(2),
          e3 \in { EmptyCredential,
                   [ssid |-> TableSsids[4], password |-> <<"p">>,
                    priority |-> PriorityModulus - 1, lastConnected |-> 1000,
                    isValid |-> TRUE] } }

ConnectReachable == SUBSET {TableSsids[i] : i \in 1 .. 4}

InitConnect ==
    /\ DirInitAt(BootMicros, FALSE)
    /\ AdcInitBoot
    /\ WsInitBoot
    /\ RunInitBoot
    /\ elapsedMs = 0
    /\ ticks = 0
    /\ wrapped = FALSE
    /\ flips = 0
    /\ fedSamples = 0
    /\ frames = 0
    /\ acceptedSamples = [psum |-> 0, pcount |-> 0, nsum |-> 0, ncount |-> 0]
    /\ millisClock = StabilizationMs + reconnectInterval
    /\ \E table \in ConnectTables : NetInitWith(table)
    /\ LoopInitWith(FALSE)
    /\ BtnInitBoot
    /\ IdInitBoot
    /\ ConnObsInit
    /\ pre = [op |-> "setup"]
    /\ lastOp = [op |-> "setup"]

\* bool connectToSavedNetworks(), called while the link is down, the networks
\* in `reachable` being in range
ConnectToSavedNetworks(reachable, flashOk) ==
    /\ ConnectToSavedNetworksStep(reachable, flashOk)
    /\ pre' = [op |-> "connectToSavedNetworks", table |-> savedNetworks,
               file |-> networksFile, now |-> millisClock]
    /\ lastOp' = [op |-> "connectToSavedNetworks", reachable |-> reachable,
                  attempts |-> AttemptLoop(SortNetworksByPriority(savedNetworks),
                                           reachable, 0, <<>>),
                  result |-> wifiConnected', flashOk |-> flashOk]
    /\ netOps' = netOps + 1
    /\ UNCHANGED <<portalActive, asyncServerStarted, lastReconnectAttempt,
                   currentReconnectInterval>>
    /\ UNCHANGED <<ctlVars, btnVars, idVars, failedCycles, cycles, pressLog,
                   btnLoops>>

ConnectCycle ==
    /\ netOps = 0
    /\ ~wifiConnected
    /\ \E reachable \in ConnectReachable, flashOk \in BOOLEAN :
          ConnectToSavedNetworks(reachable, flashOk)

NextConnect == ConnectCycle

SpecConnect == InitConnect /\ [][NextConnect]_vars

\* entry a is tried no later than entry b in priority order
RanksAtOrAbove(a, b) ==
    \/ a.priority > b.priority
    \/ a.priority = b.priority /\ a.lastConnected >= b.lastConnected

-----------------------------------------------------------------------------
(* detectButtonMultiReset() on every content of the press timestamps *)

MaxDetectCalls == 2

\* no press, and presses recorded 1 s, 4 s and 7 s after boot
DetectStamps == {0, 1000, 4000, 7000}
\* the calls are made 7 s, 9 s and just over 12 s after boot
DetectTimes == {7000, 9000, 12001}

InitDetect ==
    /\ DirInitAt(BootMicros, FALSE)
    /\ AdcInitBoot
    /\ WsInitBoot
    /\ RunInitBoot
    /\ elapsedMs = 0
    /\ ticks = 0
    /\ wrapped = FALSE
    /\ flips = 0
    /\ fedSamples = 0
    /\ frames = 0
    /\ acceptedSamples = [psum |-> 0, pcount |-> 0, nsum |-> 0, ncount |-> 0]
    /\ millisClock \in DetectTimes
    /\ NetInitWith(EmptyTable)
    /\ LoopInitWith(TRUE)
    /\ buttonPin = HIGH
    /\ buttonPressTimestamps \in [PressSlots -> DetectStamps]
    /\ buttonPressIndex = 0
    /\ lastButtonState = HIGH
    /\ lastDebounceTime = 0
    /\ restarted = FALSE
    /\ IdInitBoot
    /\ ConnObsInit
    /\ pre = [op |-> "setup"]
    /\ lastOp = [op |-> "setup"]

\* bool detectButtonMultiReset()
DetectButtonMultiReset ==
    /\ btnLoops < MaxDetectCalls
    /\ buttonPressTimestamps' = StampsAfterDetect(buttonPressTimestamps, millisClock)
    /\ pre' = [op |-> "detectButtonMultiReset", stamps |-> buttonPressTimestamps,
               now |-> millisClock]
    /\ lastOp' = [op |-> "detectButtonMultiReset",
                  result |-> DetectResult(buttonPressTimestamps, millisClock)]
    /\ btnLoops' = btnLoops + 1
    /\ UNCHANGED <<buttonPin, buttonPressIndex, lastButtonState,
                   lastDebounceTime, restarted>>
    /\ UNCHANGED <<ctlVars, millisClock, netVars, loopVars, idVars>>
    /\ UNCHANGED <<netOps, failedCycles, cycles, pressLog>>

\* a second goes by
DetectTick ==
    /\ btnLoops < MaxDetectCalls
    /\ lastOp.op # "tick"
    /\ millisClock' = millisClock + 1000
    /\ lastOp' = [op |-> "tick"]
    /\ UNCHANGED <<ctlVars, netVars, loopVars, btnVars, idVars, connObs, pre>>

NextDetect == DetectButtonMultiReset \/ DetectTick

SpecDetect == InitDetect /\ [][NextDetect]_vars

\* C33: detectButtonMultiReset returns true exactly when all
\* BUTTON_RESET_COUNT recorded timestamps are non-zero and no older than
\* BUTTON_RESET_WINDOW_MS; when it returns true every timestamp is zero
\* afterwards, so that a further call without new presses returns false; when
\* it returns false the timestamps are unchanged
C33_ClearsEvidence ==
    lastOp.op = "detectButtonMultiReset" =>
        /\ lastOp.result =
              \A i \in PressSlots :
                  /\ pre.stamps[i] # 0
                  /\ pre.now - pre.stamps[i] <= BUTTON_RESET_WINDOW_MS
        /\ lastOp.result => \A i \in PressSlots : buttonPressTimestamps[i] = 0
        /\ ~lastOp.result => buttonPressTimestamps = pre.stamps
        /\ pre.stamps = NoPresses => ~lastOp.result

\* a call that returned true on three presses of which the oldest was
\* exactly BUTTON_RESET_WINDOW_MS old, and left no timestamp
C33_Witness ==
    /\ lastOp.op = "detectButtonMultiReset"
    /\ lastOp.result
    /\ \A i \in PressSlots : pre.stamps[i] # 0
    /\ \E i \in PressSlots : pre.now - pre.stamps[i] = BUTTON_RESET_WINDOW_MS
    /\ buttonPressTimestamps = NoPresses

-----------------------------------------------------------------------------
(* loop() from the test of isRunning to the periodic snapshot, statement by
   statement, while the WebSocket task toggles the run state *)

MaxRunTicks == 3
MaxRunFed == 2
MaxRunFrames == 2

\* const unsigned long notifyInterval = 500
notifyInterval == 500

\* time between two passes of loop()
RunTickMs == {100, 400}

\* what a read of the ADC driver returns: nothing, or one conversion result
\* of positive or of negative current
RunBatches == {<<>>, <<[data |-> 3000, match |-> TRUE]>>,
               <<[data |-> 1000, match |-> TRUE]>>}

\* what the branch of the running device works on
RunWatched == <<outputDirection, directionPin, reversestartTime, accVars,
                curVars>>

InitRun ==
    /\ \E dir \in BOOLEAN : DirInitAt(BootMicros, dir)
    /\ WsInitBoot
    /\ RunInitBoot
    /\ \E pcount \in PrefillCounts, ncount \in PrefillCounts :
          MidRun(CodeCalibration, pcount, ncount, FALSE)
    /\ elapsedMs = 0
    /\ ticks = 0
    /\ wrapped = FALSE
    /\ flips = 0
    /\ fedSamples = 0
    /\ frames = 0
    /\ ConnInitBoot
    /\ pre = [op |-> "setup"]
    /\ lastOp = [op |-> "setup"]

\* the position loop() is at after a statement, and what the statement found
RunStatement(next, notified) ==
    /\ loopPos' = [at |-> next]
    /\ pre' = [op |-> "loop", at |-> loopPos.at, isRunning |-> isRunning,
               watched |-> RunWatched]
    /\ lastOp' = [op |-> "loop", at |-> loopPos.at, notified |-> notified]

\* lines 1298-1323: the voltage peaks are set if they are not, and the enable
\* output follows isRunning; the stopped device does nothing else
RunLoopTop ==
    /\ loopPos.at = "top"
    /\ IF peakPositiveVoltage = 0
       THEN /\ peakPositiveVoltage' = ToFloat(FValue1)
            /\ peakNegativeVoltage' = ToFloat(FValue1)
            /\ averagePositiveVoltage' = ToFloat(FValue1)
            /\ averageNegativeVoltage' = ToFloat(FValue1)
       ELSE UNCHANGED voltVars
    /\ LoopDeviceStateStep
    /\ RunStatement(IF isRunning THEN "process_adc_data" ELSE "top", FALSE)
    /\ UNCHANGED <<dirVars, calibration, latestRaw, latestCurrent, accVars,
                   curVars, wsVars>>
    /\ UNCHANGED <<hasResetPeakCurrent, peakResetStartTime, adcPool,
                   adc_buffer, lastAccepted, lastNotifyTime>>
    /\ UNCHANGED <<dirObs, adcObs, wsObs, connVars>>

\* line 1325
RunProcessAdcData ==
    /\ loopPos.at = "process_adc_data"
    /\ \E batch \in IF fedSamples < MaxRunFed THEN RunBatches ELSE {<<>>} :
          /\ ProcessAdcDataStep(batch)
          /\ acceptedSamples' = Tally(acceptedSamples, batch, outputDirection)
          /\ fedSamples' = fedSamples + Len(batch)
    /\ RunStatement("handleDirectionSwitching", FALSE)
    /\ UNCHANGED <<calibration, curVars, voltVars>>
    /\ UNCHANGED <<hasResetPeakCurrent, peakResetStartTime, adcPool, bootVars>>
    /\ UNCHANGED <<dirVars, wsVars, dirObs, wsObs, connVars>>

\* line 1331
RunDirection ==
    /\ loopPos.at = "handleDirectionSwitching"
    /\ HandleDirectionSwitchingStep
    /\ RunStatement("handleMeasurements", FALSE)
    /\ UNCHANGED <<microsClock, ForwardTimeInt, ReverseTimeInt, ticks, wrapped>>
    /\ UNCHANGED <<hasResetPeakCurrent, peakResetStartTime, adcPool, bootVars>>
    /\ UNCHANGED <<adcVars, wsVars, adcObs, wsObs, connVars>>

\* line 1334
RunMeasurements ==
    /\ loopPos.at = "handleMeasurements"
    /\ HandleMeasurementsStep
    /\ acceptedSamples' =
          [psum |-> IF positive_adc_count >= MAX_SAMPLES THEN 0
                    ELSE acceptedSamples.psum,
           pcount |-> IF positive_adc_count >= MAX_SAMPLES THEN 0
                      ELSE acceptedSamples.pcount,
           nsum |-> IF negative_adc_count >= MAX_SAMPLES THEN 0
                    ELSE acceptedSamples.nsum,
           ncount |-> IF negative_adc_count >= MAX_SAMPLES THEN 0
                      ELSE acceptedSamples.ncount]
    /\ RunStatement("autoReset", FALSE)
    /\ UNCHANGED <<calibration, latestRaw, latestCurrent, voltVars, fedSamples>>
    /\ UNCHANGED <<hasResetPeakCurrent, peakResetStartTime, adcPool, bootVars>>
    /\ UNCHANGED <<dirVars, wsVars, dirObs, wsObs, connVars>>

\* lines 1337-1342
RunAutoReset ==
    /\ loopPos.at = "autoReset"
    /\ IF AutoResetDue(millisClock)
       THEN /\ hasResetPeakCurrent' = TRUE
            /\ ResetPeakValuesTo(FValue1)
            /\ acceptedSamples' = [psum |-> 0, pcount |-> 0,
                                   nsum |-> 0, ncount |-> 0]
       ELSE UNCHANGED <<hasResetPeakCurrent, accVars, curVars, voltVars,
                        acceptedSamples>>
    /\ RunStatement("snapshot", AutoResetDue(millisClock))
    /\ UNCHANGED <<calibration, latestRaw, latestCurrent, fedSamples>>
    /\ UNCHANGED <<peakResetStartTime, adcPool, bootVars>>
    /\ UNCHANGED <<dirVars, wsVars, dirObs, wsObs, connVars>>

\* lines 1345-1349: the periodic snapshot ends the pass of the running device
RunSnapshot ==
    /\ loopPos.at = "snapshot"
    /\ lastNotifyTime' = IF millisClock - lastNotifyTime >= notifyInterval
                         THEN millisClock ELSE lastNotifyTime
    /\ RunStatement("top", millisClock - lastNotifyTime >= notifyInterval)
    /\ UNCHANGED <<hasResetPeakCurrent, peakResetStartTime, adcPool, enablePin,
                   adc_buffer, lastAccepted>>
    /\ UNCHANGED <<dirVars, adcVars, wsVars, dirObs, adcObs, wsObs, connVars>>

\* the user stops or starts the device, wherever loop() is
RunToggle ==
    /\ frames < MaxRunFrames
    /\ frames' = frames + 1
    /\ WebSocketMessage(MsgToggle, TRUE, TRUE)

RunTick ==
    /\ loopPos.at = "top"
    /\ ticks < MaxRunTicks
    /\ lastOp.op # "tick"
    /\ \E d \in RunTickMs : BothClocksAdvance(d)
    /\ lastOp' = [op |-> "tick"]
    /\ UNCHANGED <<reversestartTime, outputDirection, directionPin,
                   ForwardTimeInt, ReverseTimeInt, flips>>
    /\ UNCHANGED <<adcVars, wsVars, runVars, adcObs, wsObs, pre>>
    /\ UNCHANGED <<netVars, loopVars, btnVars, idVars, connObs>>

NextRun == \/ RunLoopTop
           \/ RunProcessAdcData
           \/ RunDirection
           \/ RunMeasurements
           \/ RunAutoReset
           \/ RunSnapshot
           \/ RunToggle
           \/ RunTick

SpecRun == InitRun /\ [][NextRun]_vars

C38_AccumulatorsBounded ==
    (lastOp.op = "loop" /\ lastOp.at = "snapshot") =>
        /\ positive_adc_count < MAX_SAMPLES
        /\ negative_adc_count < MAX_SAMPLES

\* a pass of the running device has ended with the positive accumulator
\* empty and the average of a full window published: the count had reached
\* MAX_SAMPLES and handleMeasurements has drained it
C38_Witness ==
    /\ lastOp.op = "loop"
    /\ lastOp.at = "snapshot"
    /\ positive_adc_count = 0
    /\ averagePositiveCurrent > 0
    /\ fedSamples = MaxRunFed
    /\ ~hasResetPeakCurrent

-----------------------------------------------------------------------------
(* The credential table across a restart: saveSavedNetworks(), then
   initMultiNetworkStorage() and loadSavedNetworks() in setup() *)

\* /networks.json holds what saveSavedNetworks() writes from the table
FileIsCurrent(table, file) == file = SavedNetworksFile(table, TRUE)

\* the device restarts and setup() runs; no multi-reset is detected
PersistRestart ==
    /\ lastOp.op # "restart"
    /\ \E nvsConnects \in BOOLEAN : SetupConnectivityStep(FALSE, nvsConnects)
    /\ pre' = [op |-> "restart", table |-> savedNetworks,
               file |-> networksFile,
               current |-> FileIsCurrent(savedNetworks, networksFile)]
    /\ lastOp' = [op |-> "restart"]
    /\ UNCHANGED <<ctlVars, connObs>>

NextPersist == \/ NetAddOrUpdate
               \/ NetRemove
               \/ NetConnect
               \/ NetTick
               \/ PersistRestart

SpecPersist == InitNet /\ [][NextPersist]_vars

=============================================================================
